---------------------------- MODULE Spec2Model ----------------------------
(***************************************************************************)
(* A model of the retrieval subsystem of the document chatbot:             *)
(*   - the tokenizer (preprocessText / extractTerms),                      *)
(*   - the chunker (chunkText and its helpers),                            *)
(*   - the TF-IDF index and cosine-similarity search (class VectorStore).  *)
(*                                                                         *)
(* Strings are sequences of one-character strings, so that lower-casing,   *)
(* punctuation stripping, splitting, trimming and substring are computed   *)
(* character by character, as the JavaScript does.                         *)
(*                                                                         *)
(* Numbers.  The code computes in IEEE-754 binary64.  The model computes   *)
(* in fixed point with round-to-nearest after every operation that rounds  *)
(* in the code (log, the tf*idf product, sqrt, the final division):        *)
(*   idf and tf-idf weights  in units of 1/WeightScale,                    *)
(*   similarities            in units of 1/SimScale.                       *)
(* NaN is a value of its own (the definition NaN).                         *)
(***************************************************************************)
EXTENDS Integers, Sequences, FiniteSets, TLC

\* ------------------------------------------------------------------ bounds

\* Longest chunk list handed to the VectorStore constructor.
MaxChunks == 2

\* Largest topK passed to search.
MaxTopK == 2

\* ----------------------------------------------------------------- numbers

\* Fixed-point unit of idf and tf-idf weights (hundredths).
WeightScale == 100

\* Fixed-point unit of a similarity (thousandths): 1.0 is SimScale.
SimScale == 1000

\* The number NaN (not a number); every other number of the model is >= 0.
NaN == -1

IsNaN(x) == x = NaN

\* Math.log(n) in units of 1/WeightScale, n = 1..10, rounded to nearest, the
\* logarithms of the composites being the sums of those of their factors.
LnTable == <<0, 69, 110, 138, 161, 179, 195, 207, 220, 230>>

\* Math.log(n / d) for 1 <= d <= n.
MathLogRatio(n, d) == LnTable[n] - LnTable[d]

\* a / b rounded to nearest (a >= 0, b > 0).
RoundDiv(a, b) == (2 * a + b) \div (2 * b)

\* Newton's iteration for the integer square root, from the guess x >= sqrt(m).
RECURSIVE NewtonSqrt(_, _)
NewtonSqrt(m, x) ==
  LET y == (x + m \div x) \div 2
  IN  IF y >= x THEN x ELSE NewtonSqrt(m, y)

\* Math.sqrt(m) rounded to nearest (m >= 0).
MathSqrt(m) ==
  LET r == IF m < 2 THEN m ELSE NewtonSqrt(m, m)
  IN  IF m - r * r > r THEN r + 1 ELSE r

Min(a, b) == IF a < b THEN a ELSE b

Max(a, b) == IF a > b THEN a ELSE b

\* ----------------------------------------------------------------- strings

SP == " "
NL == "\n"

\* \s of the regular expressions.
WhiteSpace == {" ", "\n", "\t"}

UpperCase == {"C", "D", "T"}

\* \w of the regular expressions: [A-Za-z0-9_] (of the capitals, those that
\* the model's texts use).
WordChars ==
  {"a", "b", "c", "d", "e", "f", "g", "h", "i", "j", "k", "l", "m", "n", "o",
   "p", "q", "r", "s", "t", "u", "v", "w", "x", "y", "z", "0", "1", "2", "3",
   "4", "5", "6", "7", "8", "9", "_"} \cup UpperCase

\* [.!?] of the sentence patterns.
SentenceEnd == {".", "!", "?"}

\* String.prototype.toLowerCase, one character.
LowerChar(c) ==
  CASE c = "C" -> "c"
    [] c = "D" -> "d"
    [] c = "T" -> "t"
    [] OTHER   -> c

toLowerCase(s) == [i \in 1..Len(s) |-> LowerChar(s[i])]

\* The first index >= i of a character that is no whitespace (Len(s) + 1 if none).
RECURSIVE firstNonWhite(_, _)
firstNonWhite(s, i) ==
  IF i > Len(s) \/ s[i] \notin WhiteSpace THEN i ELSE firstNonWhite(s, i + 1)

\* The last index <= i of a character that is no whitespace (0 if none).
RECURSIVE lastNonWhite(_, _)
lastNonWhite(s, i) ==
  IF i < 1 \/ s[i] \notin WhiteSpace THEN i ELSE lastNonWhite(s, i - 1)

\* String.prototype.trim.
trim(s) == SubSeq(s, firstNonWhite(s, 1), lastNonWhite(s, Len(s)))

\* String.prototype.substring(from, to), 0-based, to exclusive, both clamped.
substring(s, from, to) ==
  LET a == Max(0, Min(from, Len(s)))
      b == Max(0, Min(to, Len(s)))
  IN  SubSeq(s, Min(a, b) + 1, Max(a, b))

\* String.prototype.substring(from).
substringFrom(s, from) == substring(s, from, Len(s))

\* s.split(/[Sep]+/): the maximal runs of non-separators, with an empty string
\* before a leading and after a trailing run of separators; "" gives [""].
splitRuns(s, Sep) ==
  LET indices == [i \in 1..Len(s) |-> i]
      starts  == SelectSeq(indices, LAMBDA i :
                   s[i] \in Sep /\ (i = 1 \/ s[i - 1] \notin Sep))
      ends    == SelectSeq(indices, LAMBDA i :
                   s[i] \in Sep /\ (i = Len(s) \/ s[i + 1] \notin Sep))
      n       == Len(starts)
  IN  [k \in 1..(n + 1) |->
         SubSeq(s, IF k = 1 THEN 1 ELSE ends[k - 1] + 1,
                   IF k = n + 1 THEN Len(s) ELSE starts[k] - 1)]

\* s.split(/\s+/).
splitWhitespace(s) == splitRuns(s, WhiteSpace)

\* text.replace(/\s+/g, ' ').
collapseWhitespace(s) ==
  LET kept == SelectSeq([i \in 1..Len(s) |-> i], LAMBDA i :
                ~(s[i] \in WhiteSpace /\ i > 1 /\ s[i - 1] \in WhiteSpace))
  IN  [k \in 1..Len(kept) |->
         IF s[kept[k]] \in WhiteSpace THEN SP ELSE s[kept[k]]]

\* array.indexOf(x), 0-based, -1 when absent.
indexOf(arr, x) ==
  IF \E i \in 1..Len(arr) : arr[i] = x
  THEN (CHOOSE i \in 1..Len(arr) : arr[i] = x /\ \A j \in 1..(i - 1) : arr[j] # x) - 1
  ELSE -1

\* string.includes(sub).
includes(s, sub) ==
  \E i \in 0..(Len(s) - Len(sub)) : SubSeq(s, i + 1, i + Len(sub)) = sub

\* Elements of a sequence as a set.
Range(s) == {s[i] : i \in 1..Len(s)}

\* Sum of f[x] over the finite set S.
RECURSIVE SumOver(_, _)
SumOver(S, f) ==
  IF S = {} THEN 0
  ELSE LET x == CHOOSE y \in S : TRUE IN f[x] + SumOver(S \ {x}, f)

\* --------------------------------------------------------------- tokenizer

stopWords ==
  { <<"t","h","e">>, <<"a">>, <<"a","n">>, <<"a","n","d">>, <<"o","r">>,
    <<"b","u","t">>, <<"i","n">>, <<"o","n">>, <<"a","t">>, <<"t","o">>,
    <<"f","o","r">>, <<"o","f">>, <<"w","i","t","h">>, <<"b","y">>, <<"i","s">>,
    <<"a","r","e">>, <<"w","a","s">>, <<"w","e","r","e">>, <<"b","e">>,
    <<"b","e","e","n">>, <<"h","a","v","e">>, <<"h","a","s">>, <<"h","a","d">>,
    <<"d","o">>, <<"d","o","e","s">>, <<"d","i","d">>, <<"w","i","l","l">>,
    <<"w","o","u","l","d">>, <<"c","o","u","l","d">>, <<"s","h","o","u","l","d">>,
    <<"m","a","y">>, <<"m","i","g","h","t">>, <<"m","u","s","t">>, <<"c","a","n">>,
    <<"t","h","i","s">>, <<"t","h","a","t">>, <<"t","h","e","s","e">>,
    <<"t","h","o","s","e">>, <<"i">>, <<"y","o","u">>, <<"h","e">>, <<"s","h","e">>,
    <<"i","t">>, <<"w","e">>, <<"t","h","e","y">>, <<"m","e">>, <<"h","i","m">>,
    <<"h","e","r">>, <<"u","s">>, <<"t","h","e","m">>, <<"m","y">>, <<"y","o","u","r">>,
    <<"h","i","s">>, <<"i","t","s">>, <<"o","u","r">>, <<"t","h","e","i","r">> }

\* preprocessText: lower-case, every character that is neither \w nor \s
\* becomes a space, runs of whitespace become one space, trim.
preprocessText(text) ==
  LET lower    == toLowerCase(text)
      stripped == [i \in 1..Len(lower) |->
                     IF lower[i] \in WordChars \cup WhiteSpace THEN lower[i] ELSE SP]
  IN  trim(collapseWhitespace(stripped))

\* The tokens of the text before the filters of extractTerms.
rawTokens(text) == splitWhitespace(preprocessText(text))

\* The first filter of extractTerms: length > 2 and not a stop word.
survivingTokens(text) ==
  SelectSeq(rawTokens(text), LAMBDA term : Len(term) > 2 /\ term \notin stopWords)

\* A variant of the second filter that keeps every occurrence.
removeDuplicatesKeepAll(arr) == arr

\* The second filter of extractTerms: keep the first occurrence of each term.
removeDuplicates(arr) ==
  LET F[i \in 0..Len(arr)] ==
        IF i = 0 THEN <<>>
        ELSE IF indexOf(arr, arr[i]) = i - 1 THEN Append(F[i - 1], arr[i])
             ELSE F[i - 1]
  IN  F[Len(arr)]

extractTerms(text) == removeDuplicates(survivingTokens(text))

\* ------------------------------------------------------- key sentences

\* (s.match(new RegExp(term, 'g')) || []).length for a term of word characters:
\* the matches found left to right, each search resuming after the last match.
countMatches(s, term) ==
  LET n == Len(term)
      F[i \in 1..(Len(s) + 1)] ==
        IF i + n - 1 > Len(s) THEN 0
        ELSE IF SubSeq(s, i, i + n - 1) = term THEN 1 + F[i + n]
             ELSE F[i + 1]
  IN  F[1]

\* A stable sort of the sequence by decreasing key (insertion sort).
sortDescStable(seq, key(_)) ==
  LET Insert(sorted, x) ==
        LET after == {i \in 1..Len(sorted) : key(sorted[i]) < key(x)}
            pos   == IF after = {} THEN Len(sorted) + 1
                     ELSE CHOOSE i \in after : \A j \in after : i <= j
        IN  SubSeq(sorted, 1, pos - 1) \o <<x>> \o SubSeq(sorted, pos, Len(sorted))
      F[i \in 0..Len(seq)] == IF i = 0 THEN <<>> ELSE Insert(F[i - 1], seq[i])
  IN  F[Len(seq)]

\* array.slice(0, n) for n >= 0.
sliceTo(arr, n) == SubSeq(arr, 1, Min(n, Len(arr)))

\* The score extractKeySentences gives one sentence.
sentenceScore(sentence, queryTerms) ==
  LET sentenceLower   == toLowerCase(sentence)
      queryTermsLower == [i \in 1..Len(queryTerms) |-> toLowerCase(queryTerms[i])]
      idx             == 1..Len(queryTermsLower)
      matchScore      == SumOver(idx, [i \in idx |->
                           countMatches(sentenceLower, queryTermsLower[i])
                             * Len(queryTermsLower[i])])
      uniqueTermsFound ==
        Cardinality({i \in idx : includes(sentenceLower, queryTermsLower[i])})
  IN  IF uniqueTermsFound > 1 THEN matchScore + uniqueTermsFound * 50
      ELSE matchScore

\* A variant without the `score > 0` filter.
extractKeySentencesUnfiltered(text, queryTerms) ==
  LET pieces    == splitRuns(text, SentenceEnd)
      trimmed   == [i \in 1..Len(pieces) |-> trim(pieces[i])]
      sentences == SelectSeq(trimmed, LAMBDA s : Len(s) > 0)
      sorted    == sortDescStable(sentences,
                                  LAMBDA s : sentenceScore(s, queryTerms))
  IN  sliceTo(sorted, 3)

\* extractKeySentences: the sentences of positive score, best first, at most 3.
extractKeySentences(text, queryTerms) ==
  LET pieces    == splitRuns(text, SentenceEnd)
      trimmed   == [i \in 1..Len(pieces) |-> trim(pieces[i])]
      sentences == SelectSeq(trimmed, LAMBDA s : Len(s) > 0)
      scored    == SelectSeq(sentences,
                             LAMBDA s : sentenceScore(s, queryTerms) > 0)
      sorted    == sortDescStable(scored,
                                  LAMBDA s : sentenceScore(s, queryTerms))
  IN  sliceTo(sorted, 3)

\* ------------------------------------------------------------ VectorStore

\* The property names an object literal {} inherits from Object.prototype that
\* extractTerms can return (lower-case, \w only, longer than 2, no stop word).
\* Reading such a key from a vector that has no own entry for it gives the
\* inherited function, not undefined.
ObjectPrototypeKeys == { <<"c","o","n","s","t","r","u","c","t","o","r">> }

\* The property names of Object.prototype with a setter that extractTerms can
\* return. `vector[key] = score` on an object literal calls the setter, which
\* ignores a number: the vector gets no own entry for such a key.
ObjectPrototypeSetters == { <<"_","_","p","r","o","t","o","_","_">> }

\* A TFIDFVector is a JavaScript object: here the sequence of its own entries
\* [term, score] in insertion order.
ownKeys(vector) == {vector[i].term : i \in 1..Len(vector)}

\* `vector[key] || 0` as a number: the own score (0 for a score of 0), 0 for a key
\* that is not found, and NaN for a key found on the prototype: the inherited
\* function is truthy, so `|| 0` keeps it, and it is NaN in the arithmetic.
propOrZero(vector, key) ==
  IF key \in ownKeys(vector)
  THEN (CHOOSE e \in Range(vector) : e.term = key).score
  ELSE IF key \in ObjectPrototypeKeys THEN NaN
  ELSE 0

\* A smoothed variant: ln((N + 1) / df).
calculateIDFSmoothed(allTerms) ==
  LET documentCount == Len(allTerms)
      counted       == UNION {Range(allTerms[i]) : i \in 1..Len(allTerms)}
      docCount(term) ==
        Cardinality({i \in 1..Len(allTerms) : term \in Range(allTerms[i])})
  IN  [term \in counted |-> MathLogRatio(documentCount + 1, docCount(term))]

\* calculateIDF: the Map term -> Math.log(documentCount / docCount), for the
\* terms with docCount >= 1.
calculateIDF(allTerms) ==
  LET documentCount == Len(allTerms)
      counted       == UNION {Range(allTerms[i]) : i \in 1..Len(allTerms)}
      docCount(term) ==
        Cardinality({i \in 1..Len(allTerms) : term \in Range(allTerms[i])})
  IN  [term \in counted |-> MathLogRatio(documentCount, docCount(term))]

\* `idfScores.get(term) || 0`.
idfOrZero(idf, term) == IF term \in DOMAIN idf THEN idf[term] ELSE 0

\* calculateTFIDF: one entry per distinct term of the list that the assignment
\* tfidfVector[term] = ... makes an own key, in the order of first occurrence,
\* scored (freq / totalTerms) * idf.
calculateTFIDF(terms, idf) ==
  LET totalTerms == Len(terms)
      keys       == SelectSeq(removeDuplicates(terms),
                              LAMBDA term : term \notin ObjectPrototypeSetters)
      freq(term) == Cardinality({i \in 1..Len(terms) : terms[i] = term})
  IN  [i \in 1..Len(keys) |->
         [term  |-> keys[i],
          score |-> RoundDiv(freq(keys[i]) * idfOrZero(idf, keys[i]), totalTerms)]]

\* cosineSimilarity, in units of 1/SimScale; NaN as soon as one of the values
\* read from the two vectors is NaN.
cosineSimilarity(vectorA, vectorB) ==
  LET allKeys == ownKeys(vectorA) \cup ownKeys(vectorB)
      valueA  == [key \in allKeys |-> propOrZero(vectorA, key)]
      valueB  == [key \in allKeys |-> propOrZero(vectorB, key)]
      anyNaN  == \E key \in allKeys : IsNaN(valueA[key]) \/ IsNaN(valueB[key])
      dotProduct == SumOver(allKeys, [key \in allKeys |-> valueA[key] * valueB[key]])
      magnitudeA == SumOver(allKeys, [key \in allKeys |-> valueA[key] * valueA[key]])
      magnitudeB == SumOver(allKeys, [key \in allKeys |-> valueB[key] * valueB[key]])
      magnitude  == MathSqrt(magnitudeA) * MathSqrt(magnitudeB)
  IN  IF anyNaN THEN NaN
      ELSE IF magnitude = 0 THEN 0
      ELSE RoundDiv(dotProduct * SimScale, magnitude)

\* ----------------------------------------------------------------- chunker

\* CHUNK_CONFIG.
targetSize == 800

maxSize == 1200

minSize == 200

overlapSize == 100

\* The elements of a finite set of integers in increasing order.
RECURSIVE sortedSeq(_)
sortedSeq(S) ==
  IF S = {} THEN <<>>
  ELSE LET m == CHOOSE x \in S : \A y \in S : x <= y
       IN  <<m>> \o sortedSeq(S \ {m})

\* The last index of the run of characters of Cls that starts at index i.
RECURSIVE runEnd(_, _, _)
runEnd(s, i, Cls) ==
  IF i < Len(s) /\ s[i + 1] \in Cls THEN runEnd(s, i + 1, Cls) ELSE i

\* The first index of the run of characters of Cls that ends at index i.
RECURSIVE runStart(_, _, _)
runStart(s, i, Cls) ==
  IF i > 1 /\ s[i - 1] \in Cls THEN runStart(s, i - 1, Cls) ELSE i

\* s.split(regex) for the matches given as [start, end] in increasing order: the
\* pieces before, between and after the matches.
piecesBetween(s, matches) ==
  LET m == Len(matches)
  IN  [k \in 1..(m + 1) |->
         SubSeq(s,
                IF k = 1 THEN 1 ELSE matches[k - 1].end + 1,
                IF k = m + 1 THEN Len(s) ELSE matches[k].start - 1)]

\* The matches of sentenceEndPattern /[.!?]+\s+/g: a maximal run of sentence
\* ends followed by whitespace, with all the whitespace that follows.
sentenceEndMatches(s) ==
  LET starts == {i \in 1..Len(s) :
                   /\ s[i] \in SentenceEnd
                   /\ (i = 1 \/ s[i - 1] \notin SentenceEnd)
                   /\ LET e == runEnd(s, i, SentenceEnd)
                      IN  e < Len(s) /\ s[e + 1] \in WhiteSpace}
      order  == sortedSeq(starts)
  IN  [k \in 1..Len(order) |->
         [start |-> order[k],
          end   |-> runEnd(s, runEnd(s, order[k], SentenceEnd) + 1, WhiteSpace)]]

\* The matches of paragraphPattern /\n\s*\n/g: in a run of whitespace with two
\* line feeds or more, from its first line feed to its last.
paragraphMatches(s) ==
  LET lineFeeds(lo, hi) == {j \in lo..hi : s[j] = NL}
      first(i) == CHOOSE j \in lineFeeds(runStart(s, i, WhiteSpace), i) :
                    \A k \in lineFeeds(runStart(s, i, WhiteSpace), i) : j <= k
      last(i)  == CHOOSE j \in lineFeeds(i, runEnd(s, i, WhiteSpace)) :
                    \A k \in lineFeeds(i, runEnd(s, i, WhiteSpace)) : k <= j
      starts   == {i \in 1..Len(s) : s[i] = NL /\ first(i) = i /\ last(i) > i}
      order    == sortedSeq(starts)
  IN  [k \in 1..Len(order) |-> [start |-> order[k], end |-> last(order[k])]]

\* text.split(CHUNK_CONFIG.paragraphPattern).
splitParagraphs(text) == piecesBetween(text, paragraphMatches(text))

\* A variant that returns the 0-based index of the page.
getPageNumberZeroBased(offset, pageBreaks) ==
  LET later == {i \in 1..Len(pageBreaks) : offset < pageBreaks[i]}
  IN  IF later = {} THEN Len(pageBreaks)
      ELSE (CHOOSE i \in later : \A j \in later : i <= j) - 1

\* getPageNumber.
getPageNumber(offset, pageBreaks) ==
  LET later == {i \in 1..Len(pageBreaks) : offset < pageBreaks[i]}
  IN  IF later = {} THEN Len(pageBreaks) + 1
      ELSE CHOOSE i \in later : \A j \in later : i <= j

\* A DocumentChunk; the id `chunk-${chunkIndex}` is the pair <<"chunk-", chunkIndex>>.
DocumentChunk(text, chunkIndex, pageNumber, startOffset, endOffset) ==
  [id          |-> <<"chunk-", chunkIndex>>,
   text        |-> text,
   pageNumber  |-> pageNumber,
   chunkIndex  |-> chunkIndex,
   startOffset |-> startOffset,
   endOffset   |-> endOffset]

\* A variant that numbers the chunk with the incremented counter.
createChunkPreIncrement(text, chunkIndex, startOffset, endOffset, pageBreaks) ==
  DocumentChunk(text, chunkIndex + 1, getPageNumber(startOffset, pageBreaks),
                startOffset, endOffset)

\* createChunk.
createChunk(text, chunkIndex, startOffset, endOffset, pageBreaks) ==
  DocumentChunk(text, chunkIndex, getPageNumber(startOffset, pageBreaks),
                startOffset, endOffset)

\* The loop of findGoodBreakPoint from sentence k on.
RECURSIVE walkSentences(_, _, _, _)
walkSentences(sentences, k, position, bestBreak) ==
  IF k > Len(sentences) - 1 THEN bestBreak
  ELSE LET next == position + Len(sentences[k]) + 1
       IN  IF next >= minSize /\ next <= targetSize
           THEN walkSentences(sentences, k + 1, next, next)
           ELSE IF next > targetSize THEN bestBreak
           ELSE walkSentences(sentences, k + 1, next, bestBreak)

\* findGoodBreakPoint.
findGoodBreakPoint(text) ==
  walkSentences(piecesBetween(text, sentenceEndMatches(text)), 1, 0, Len(text))

\* getOverlapText.
getOverlapText(text, size) ==
  IF Len(text) <= size THEN text
  ELSE LET overlap    == substringFrom(text, Len(text) - size)
           spaceIndex == indexOf(overlap, SP)
       IN  IF spaceIndex > 0 THEN substringFrom(overlap, spaceIndex + 1)
           ELSE overlap

\* ---------------------------------------------------------------- inputs

\* "The cat sat."
TextCatSat ==
  <<"T","h","e"," ","c","a","t"," ","s","a","t",".">>

\* "cat cat cat dog"
TextCatCatDog ==
  <<"c","a","t"," ","c","a","t"," ","c","a","t"," ","d","o","g">>

\* "sat, Cat"
TextSatCat ==
  <<"s","a","t",","," ","C","a","t">>

\* "the of it"
TextStopOnly ==
  <<"t","h","e"," ","o","f"," ","i","t">>

\* "constructor dog"
TextCtorDog ==
  <<"c","o","n","s","t","r","u","c","t","o","r"," ","d","o","g">>

\* "owl dog"
TextOwlDog ==
  <<"o","w","l"," ","d","o","g">>

\* "constructor"
TextCtor ==
  <<"c","o","n","s","t","r","u","c","t","o","r">>

\* ""
TextEmpty == <<>>

\* A text in which the term __proto__ stands beside another, and the term alone.
TextProtoCat == <<"_","_","p","r","o","t","o","_","_", SP, "c","a","t">>

TextProto == <<"_","_","p","r","o","t","o","_","_">>

\* The texts of the chunks handed to the constructor.
DocTexts == {TextCatSat, TextCatCatDog, TextSatCat, TextStopOnly, TextCtorDog}

\* The queries: every chunk text, the empty query, a query with a term no chunk
\* has, and a one-word query.
QueryTexts == DocTexts \cup {TextEmpty, TextOwlDog, TextCtor}

\* The term lists given to findChunksWithTerms.
TermLists == {<<>>, <<<<"C","a","t">>>>, <<<<"o","w","l">>, <<"d","o","g">>>>}

\* The chunk lists of the model: up to MaxChunks chunks with texts of DocTexts.
ChunkLists ==
  UNION {{[i \in 1..n |-> DocumentChunk(ts[i], i - 1, 1, 0, Len(ts[i]))] :
            ts \in [1..n -> DocTexts]} : n \in 0..MaxChunks}

\* The chunk lists on which the construction alone is examined: the texts of
\* DocTexts and those with the term __proto__, with offsets and page numbers
\* that differ from chunk to chunk.
ConstructionChunkLists ==
  UNION {{[i \in 1..n |-> DocumentChunk(ts[i], i - 1, i, 10 * i, 10 * i + Len(ts[i]))] :
            ts \in [1..n -> DocTexts \cup {TextProtoCat, TextProto}]} :
         n \in 0..MaxChunks}

\* n times the character c.
Rep(c, n) == [k \in 1..n |-> c]

\* A sentence of n characters: n - 1 letters and a full stop.
sentenceOf(n) == Rep("x", n - 1) \o <<".">>

\* 150 characters, one sentence: shorter than minSize.
ParaShort == sentenceOf(150)

\* 300 characters, three sentences.
ParaMedium == sentenceOf(100) \o <<SP>> \o sentenceOf(100) \o <<SP>> \o sentenceOf(98)

\* 1100 characters without a sentence end: longer than maxSize - minSize.
ParaLong == Rep("x", 1100)

\* 908 characters, nine sentences of 100 characters.
ParaSentences ==
  sentenceOf(100) \o <<SP>> \o sentenceOf(100) \o <<SP>> \o sentenceOf(100) \o <<SP>>
    \o sentenceOf(100) \o <<SP>> \o sentenceOf(100) \o <<SP>> \o sentenceOf(100)
    \o <<SP>> \o sentenceOf(100) \o <<SP>> \o sentenceOf(100) \o <<SP>>
    \o sentenceOf(100)

\* 199 characters, one sentence.
ParaAlmostMin == sentenceOf(199)

\* 603 characters: a sentence of one letter, then 600 letters.
ParaShortSentence == <<"x", ".", SP>> \o Rep("x", 600)

\* The words of the texts given to extractTerms: a term, the same capitalised, a
\* second term, a stop word, a word of two letters.
TermWords ==
  {<<"c","a","t">>, <<"C","a","t">>, <<"d","o","g">>, <<"t","h","e">>, <<"o","x">>}

\* What stands between two words.
WordSeparators == {<<SP>>, <<",", SP>>}

\* Longest text given to extractTerms, in words.
MaxWords == 3

\* The texts of exactly n words.
RECURSIVE textsOfWords(_)
textsOfWords(n) ==
  IF n = 0 THEN {<<>>}
  ELSE IF n = 1 THEN TermWords
  ELSE {t \o sep \o w : t \in textsOfWords(n - 1), sep \in WordSeparators, w \in TermWords}

\* The texts given to extractTerms: up to MaxWords words, and the same with
\* white space around.
TermTexts ==
  LET bodies == UNION {textsOfWords(n) : n \in 0..MaxWords}
  IN  bodies \cup {<<SP>> \o t \o <<".", NL>> : t \in bodies}

\* The sentences of the texts given to extractKeySentences: both terms; one
\* term twice; no term, two terminators; one term; a term inside a longer word.
KeySentences ==
  { <<"C","a","t", SP, "d","o","g", ".">>,
    <<"c","a","t", SP, "c","a","t", "!">>,
    <<"T","h","e", SP, "o","x", "?", "!">>,
    <<"d","o","g", ".">>,
    <<"c","a","t","e","g","o","r","y", ".">> }

\* Longest text given to extractKeySentences, in sentences.
MaxSentences == 4

\* The texts of exactly n sentences, a space after each.
RECURSIVE textsOfSentences(_)
textsOfSentences(n) ==
  IF n = 0 THEN {<<>>}
  ELSE {t \o sentence \o <<SP>> : t \in textsOfSentences(n - 1), sentence \in KeySentences}

\* The texts given to extractKeySentences.
KeyTexts == UNION {textsOfSentences(n) : n \in 0..MaxSentences}

\* The query terms given to extractKeySentences: search passes what extractTerms
\* returned for the query.
KeyTermLists ==
  {extractTerms(query) :
     query \in {TextEmpty, TextStopOnly, TextOwlDog, TextCatCatDog,
                <<"d","o","g", SP, "C","a","t">>, <<"c","a","t">>}}

\* What the user types into the chat: queries of the store, one with white space
\* around, and a blank input.
ChatInputs ==
  {TextCatSat, TextStopOnly, TextCtor, <<SP>> \o TextCatCatDog \o <<SP>>, <<SP, SP>>}

\* Most submissions of a run of the chat.
MaxSubmits == 1

\* Most initialization attempts of a run of the hook.
MaxAttempts == 2

\* The paragraphs the model's documents are made of.
Paragraphs ==
  {ParaShort, ParaMedium, ParaLong, ParaSentences, ParaAlmostMin, ParaShortSentence}

\* Longest document, in paragraphs.
MaxParagraphs == 3

\* The paragraphs joined by blank lines.
RECURSIVE joinParagraphs(_)
joinParagraphs(ps) ==
  IF ps = <<>> THEN <<>>
  ELSE IF Len(ps) = 1 THEN ps[1]
  ELSE ps[1] \o <<NL, NL>> \o joinParagraphs(Tail(ps))

\* The documents: up to MaxParagraphs paragraphs, and the same after a blank line.
Documents ==
  LET bodies == UNION {{joinParagraphs(ps) : ps \in [1..n -> Paragraphs]} :
                         n \in 0..MaxParagraphs}
  IN  bodies \cup {<<NL, SP, NL>> \o joinParagraphs(<<p>>) : p \in Paragraphs}

\* What extractTextFromPDF can resolve with: a text that is trimmed and not
\* empty, whose pages are joined by a blank line where a page ends a sentence,
\* and the offsets at which the pages after the first begin. One short page; one
\* page of three sentences; one page without a sentence end; one page of nine
\* sentences; one page whose only sentence end is near its start; two pages;
\* three.
ExtractedTexts ==
  { [text |-> ParaShort, pageBreaks |-> <<>>],
    [text |-> ParaAlmostMin, pageBreaks |-> <<>>],
    [text |-> ParaMedium, pageBreaks |-> <<>>],
    [text |-> ParaLong, pageBreaks |-> <<>>],
    [text |-> ParaSentences, pageBreaks |-> <<>>],
    [text |-> ParaShortSentence, pageBreaks |-> <<>>],
    [text |-> joinParagraphs(<<ParaShort, ParaShort>>), pageBreaks |-> <<150>>],
    [text |-> joinParagraphs(<<ParaAlmostMin, ParaAlmostMin>>), pageBreaks |-> <<199>>],
    [text |-> joinParagraphs(<<ParaSentences, ParaSentences>>), pageBreaks |-> <<908>>],
    [text |-> joinParagraphs(<<ParaMedium, ParaSentences>>), pageBreaks |-> <<300>>],
    [text |-> joinParagraphs(<<ParaMedium, ParaShort, ParaMedium>>),
     pageBreaks |-> <<300, 451>>] }

\* The files given to processPdfDocument, by their type.
FileTypes == {"application/pdf", "text/plain"}

\* The page-break lists.
PageBreakLists == {<<>>, <<300, 1000>>}

\* ----------------------------------------------------------------- state

VARIABLES
  documentChunks,   \* the argument of the VectorStore constructor
  chunks,           \* VectorStore.chunks: the ProcessedChunk list
  vocabulary,       \* VectorStore.vocabulary
  idfScores,        \* VectorStore.idfScores
  isInitialized,    \* VectorStore.isInitialized
  ret,              \* what the last public operation returned or threw
  text,             \* chunkText: the argument text
  pageBreaks,       \* chunkText: the argument pageBreaks
  paragraphs,       \* chunkText: paragraphs
  paraIndex,        \* chunkText: the loop variable i
  outChunks,        \* chunkText: the local chunks, the list it returns
  chunkIndex,       \* chunkText: chunkIndex
  currentPosition,  \* chunkText: currentPosition
  currentChunk,     \* chunkText: currentChunk
  chunkStartPosition, \* chunkText: chunkStartPosition
  emittedBy,        \* history: which push produced each element of outChunks
  ckPc,             \* chunkText: "idle", "loop" (in the for loop) or "done"
  messages,         \* ChatInterface: messages
  isSearching,      \* ChatInterface: isSearching
  isGenerating,     \* useWebLLM: isGenerating
  chatPc,           \* handleSubmit: "idle" or "awaitLLM" (at the await of line 111)
  pending,          \* handleSubmit: its locals while it waits for the LLM
  handled,          \* history: what the last finished handleSubmit went through
  loadingState,     \* useWebLLM: loadingState
  engineRef,        \* useWebLLM: engineRef.current, 0 for null, else the engine's number
  initializationRef, \* useWebLLM: initializationRef.current, 0 for null, else the attempt's number
  attempts,         \* history: the engines created, one per attempt
  reloading,        \* the attempts whose engine.reload has not settled
  completions,      \* the chat.completions.create calls that have not settled
  mounted,          \* the component that uses the hook is mounted
  llmRet,           \* what the last call of the hook returned or threw
  loadPc,           \* loadPdfFromAssets and processPdfDocument: where they stand
  file,             \* what fetchPdfFile resolved with
  extractedData,    \* what extractTextFromPDF resolved with
  isProcessing,     \* App: isProcessing
  processingStage,  \* App: processingStage
  loadError,        \* App: loadError
  vectorStoreRef,   \* App: vectorStoreRef.current is not null
  stateChanges      \* history: the arguments of the onProcessingStateChange calls

storeVars == <<documentChunks, chunks, vocabulary, idfScores, isInitialized, ret>>

chunkerVars ==
  <<text, pageBreaks, paragraphs, paraIndex, outChunks, chunkIndex,
    currentPosition, currentChunk, chunkStartPosition, emittedBy, ckPc>>

chatVars == <<messages, isSearching, isGenerating, chatPc, pending, handled>>

llmVars ==
  <<loadingState, engineRef, initializationRef, attempts, reloading, completions,
    mounted, llmRet>>

loadVars ==
  <<loadPc, file, extractedData, isProcessing, processingStage, loadError,
    vectorStoreRef, stateChanges>>

appVars == <<llmVars, loadVars>>

vars == <<storeVars, chunkerVars, chatVars, appVars>>

\* No chunkText call is in progress.
ChunkerIdle ==
  /\ text = <<>>
  /\ pageBreaks = <<>>
  /\ paragraphs = <<>>
  /\ paraIndex = 0
  /\ outChunks = <<>>
  /\ chunkIndex = 0
  /\ currentPosition = 0
  /\ currentChunk = <<>>
  /\ chunkStartPosition = 0
  /\ emittedBy = <<>>
  /\ ckPc = "idle"

\* The fields of a VectorStore before the constructor's body runs.
StoreFields ==
  /\ chunks = <<>>
  /\ vocabulary = {}
  /\ idfScores = <<>>
  /\ isInitialized = FALSE
  /\ ret = [op |-> "none"]

\* The chat before any submission.
ChatIdle ==
  /\ messages = <<>>
  /\ isSearching = FALSE
  /\ isGenerating = FALSE
  /\ chatPc = "idle"
  /\ pending = [op |-> "none"]
  /\ handled = [op |-> "none"]

\* useWebLLM after its first render: the useState and useRef initial values.
LLMIdle ==
  /\ loadingState = [isLoading |-> FALSE, progress |-> 0, stage |-> "",
                     error |-> "null", isReady |-> FALSE]
  /\ engineRef = 0
  /\ initializationRef = 0
  /\ attempts = 0
  /\ reloading = {}
  /\ completions = 0
  /\ mounted = TRUE
  /\ llmRet = [op |-> "none"]

\* App after its first render, before the effect that loads the document.
LoaderIdle ==
  /\ loadPc = "idle"
  /\ file = [type |-> "none"]
  /\ extractedData = [outcome |-> "none"]
  /\ isProcessing = FALSE
  /\ processingStage = ""
  /\ loadError = ""
  /\ vectorStoreRef = FALSE
  /\ stateChanges = <<>>

AppIdle == LLMIdle /\ LoaderIdle

\* ------------------------------------------------------- VectorStore: build

\* extractTerms of every chunk: the allTerms of initializeStore.
allTermsOf(docChunks) == [i \in 1..Len(docChunks) |-> extractTerms(docChunks[i].text)]

\* { ...chunk, tfidfVector, termCount }.
ProcessedChunk(chunk, tfidfVector, termCount) ==
  [id          |-> chunk.id,
   text        |-> chunk.text,
   pageNumber  |-> chunk.pageNumber,
   chunkIndex  |-> chunk.chunkIndex,
   startOffset |-> chunk.startOffset,
   endOffset   |-> chunk.endOffset,
   tfidfVector |-> tfidfVector,
   termCount   |-> termCount]

\* The constructor: initializeStore(documentChunks).
initializeStore ==
  /\ ~isInitialized
  /\ LET allTerms == allTermsOf(documentChunks)
         idf      == calculateIDF(allTerms)
     IN  /\ vocabulary' = UNION {Range(allTerms[i]) : i \in 1..Len(allTerms)}
         /\ idfScores' = idf
         /\ chunks' = [i \in 1..Len(documentChunks) |->
                         ProcessedChunk(documentChunks[i],
                                        calculateTFIDF(allTerms[i], idf),
                                        Len(allTerms[i]))]
  /\ isInitialized' = TRUE
  /\ UNCHANGED <<documentChunks, ret, chunkerVars, chatVars, appVars>>

\* ------------------------------------------------------ VectorStore: search

\* The similarities array of search, before the sort.
similaritiesOf(queryVector) ==
  [i \in 1..Len(chunks) |->
     [chunk      |-> chunks[i],
      similarity |-> cosineSimilarity(queryVector, chunks[i].tfidfVector)]]

\* Whether (a, b) => b.similarity - a.similarity is a consistent comparison for
\* the array: a NaN difference counts as 0, so a NaN similarity compares equal
\* to everything, which is consistent only if all the numbers are equal.
consistentComparator(arr) ==
  LET sims == {arr[i].similarity : i \in 1..Len(arr)}
  IN  ~(NaN \in sims /\ Cardinality(sims \ {NaN}) > 1)

\* similarities.sort(...): the stable sort by decreasing similarity; with a
\* comparator that is not consistent the order is implementation-defined, any
\* permutation of the array.
sortOutcomes(arr) ==
  LET sims == {arr[i].similarity : i \in 1..Len(arr)}
  IN  IF NaN \notin sims
      THEN {sortDescStable(arr, LAMBDA e : e.similarity)}
      ELSE IF consistentComparator(arr) THEN {arr}
      ELSE {[i \in 1..Len(arr) |-> arr[p[i]]] : p \in Permutations(1..Len(arr))}

\* A variant without the slice(0, topK).
searchResultsUnsliced(sorted, topK, queryTerms) ==
  [i \in 1..Len(sorted) |->
     [chunk             |-> sorted[i].chunk,
      similarity        |-> sorted[i].similarity,
      relevantSentences |-> extractKeySentences(sorted[i].chunk.text, queryTerms)]]

\* The SearchResult list built from the sorted array.
searchResults(sorted, topK, queryTerms) ==
  LET topResults == sliceTo(sorted, topK)
  IN  [i \in 1..Len(topResults) |->
         [chunk             |-> topResults[i].chunk,
          similarity        |-> topResults[i].similarity,
          relevantSentences |->
            extractKeySentences(topResults[i].chunk.text, queryTerms)]]

\* A variant that sorts the chunk list of the store itself.
searchSortingInPlace(query, topK) ==
  /\ LET queryTerms  == extractTerms(query)
         queryVector == calculateTFIDF(queryTerms, idfScores)
     IN  \E sorted \in sortOutcomes(similaritiesOf(queryVector)) :
           /\ chunks' = [i \in 1..Len(sorted) |-> sorted[i].chunk]
           /\ ret' = [op |-> "search", query |-> query, topK |-> topK,
                      results |-> searchResults(sorted, topK, queryTerms)]
  /\ UNCHANGED <<documentChunks, vocabulary, idfScores, isInitialized, chunkerVars, chatVars, appVars>>

\* A variant without the isInitialized guard.
searchUnguarded(query, topK) ==
  /\ LET queryTerms  == extractTerms(query)
         queryVector == calculateTFIDF(queryTerms, idfScores)
     IN  \E sorted \in sortOutcomes(similaritiesOf(queryVector)) :
           ret' = [op |-> "search", query |-> query, topK |-> topK,
                   results |-> searchResults(sorted, topK, queryTerms)]
  /\ UNCHANGED <<documentChunks, chunks, vocabulary, idfScores, isInitialized,
                 chunkerVars, chatVars, appVars>>

\* search(query, topK).
search(query, topK) ==
  /\ IF ~isInitialized
     THEN ret' = [op |-> "search", query |-> query, topK |-> topK,
                  threw |-> "Vector store not initialized"]
     ELSE LET queryTerms  == extractTerms(query)
              queryVector == calculateTFIDF(queryTerms, idfScores)
          IN  \E sorted \in sortOutcomes(similaritiesOf(queryVector)) :
                ret' = [op |-> "search", query |-> query, topK |-> topK,
                        results |-> searchResults(sorted, topK, queryTerms)]
  /\ UNCHANGED <<documentChunks, chunks, vocabulary, idfScores, isInitialized,
                 chunkerVars, chatVars, appVars>>

\* --------------------------------------------- VectorStore: introspection

\* A variant without the `this.chunks.length > 0` guard: Math.round(0 / 0) is NaN.
getStatsUnguarded ==
  /\ LET lengths == [i \in 1..Len(chunks) |-> Len(chunks[i].text)]
         averageChunkLength ==
           IF Len(chunks) > 0
           THEN RoundDiv(SumOver(DOMAIN lengths, lengths), Len(chunks))
           ELSE NaN
     IN  ret' = [op |-> "getStats",
                 chunkCount |-> Len(chunks),
                 vocabularySize |-> Cardinality(vocabulary),
                 averageChunkLength |-> averageChunkLength,
                 isInitialized |-> isInitialized]
  /\ UNCHANGED <<documentChunks, chunks, vocabulary, idfScores, isInitialized,
                 chunkerVars, chatVars, appVars>>

\* getStats().
getStats ==
  /\ LET lengths == [i \in 1..Len(chunks) |-> Len(chunks[i].text)]
         averageChunkLength ==
           IF Len(chunks) > 0
           THEN RoundDiv(SumOver(DOMAIN lengths, lengths), Len(chunks))
           ELSE 0
     IN  ret' = [op |-> "getStats",
                 chunkCount |-> Len(chunks),
                 vocabularySize |-> Cardinality(vocabulary),
                 averageChunkLength |-> averageChunkLength,
                 isInitialized |-> isInitialized]
  /\ UNCHANGED <<documentChunks, chunks, vocabulary, idfScores, isInitialized,
                 chunkerVars, chatVars, appVars>>

\* findChunksWithTerms(terms).
findChunksWithTerms(terms) ==
  /\ LET lowerTerms == [i \in 1..Len(terms) |-> toLowerCase(terms[i])]
     IN  ret' = [op |-> "findChunksWithTerms", terms |-> terms,
                 found |-> SelectSeq(chunks, LAMBDA chunk :
                             \E i \in 1..Len(lowerTerms) :
                               includes(toLowerCase(chunk.text), lowerTerms[i]))]
  /\ UNCHANGED <<documentChunks, chunks, vocabulary, idfScores, isInitialized,
                 chunkerVars, chatVars, appVars>>

\* The entries of all chunk vectors, chunk after chunk.
RECURSIVE allEntries(_)
allEntries(cs) ==
  IF cs = <<>> THEN <<>> ELSE Head(cs).tfidfVector \o allEntries(Tail(cs))

\* getTopTerms(limit).
getTopTerms(limit) ==
  /\ LET entries == allEntries(chunks)
         terms   == removeDuplicates([i \in 1..Len(entries) |-> entries[i].term])
         idx     == 1..Len(entries)
         total(term) ==
           SumOver({i \in idx : entries[i].term = term},
                   [i \in idx |-> entries[i].score])
         termScores == [i \in 1..Len(terms) |->
                          [term |-> terms[i], score |-> total(terms[i])]]
     IN  ret' = [op |-> "getTopTerms", limit |-> limit,
                 top |-> sliceTo(sortDescStable(termScores, LAMBDA e : e.score),
                                 limit)]
  /\ UNCHANGED <<documentChunks, chunks, vocabulary, idfScores, isInitialized,
                 chunkerVars, chatVars, appVars>>

\* ------------------------------------------------------------- chunkText

\* The state of chunkText when it enters its loop (lines 29-37).
chunkTextEntry ==
  /\ paragraphs = splitParagraphs(text)
  /\ paraIndex = 0
  /\ outChunks = <<>>
  /\ chunkIndex = 0
  /\ currentPosition = 0
  /\ currentChunk = <<>>
  /\ chunkStartPosition = 0
  /\ emittedBy = <<>>
  /\ ckPc = "loop"

\* The paragraph of the next iteration, trimmed.
nextParagraph == trim(paragraphs[paraIndex + 1])

\* A loop iteration on an empty paragraph: the `continue`.
skipEmptyParagraph ==
  /\ ckPc = "loop"
  /\ paraIndex < Len(paragraphs)
  /\ nextParagraph = <<>>
  /\ currentPosition' = currentPosition + Len(nextParagraph) + 2
  /\ paraIndex' = paraIndex + 1
  /\ UNCHANGED <<text, pageBreaks, paragraphs, outChunks, chunkIndex,
                 currentChunk, chunkStartPosition, emittedBy, ckPc, storeVars, chatVars, appVars>>

\* The first half of an iteration (lines 47-74): what adding the paragraph
\* makes of the buffer, as [chunk, start, emitted, via].
addParagraph(paragraph) ==
  LET overMax == /\ currentChunk # <<>>
                 /\ Len(currentChunk) + Len(paragraph) > maxSize
  IN  IF overMax /\ Len(currentChunk) >= minSize
      THEN LET overlap == getOverlapText(currentChunk, overlapSize)
           IN  [chunk   |-> overlap,
                start   |-> currentPosition - Len(overlap),
                emitted |-> <<createChunk(trim(currentChunk), chunkIndex,
                                          chunkStartPosition, currentPosition - 1,
                                          pageBreaks)>>,
                via     |-> <<"maxSize">>]
      ELSE IF overMax
      THEN [chunk   |-> currentChunk \o <<NL, NL>> \o paragraph,
            start   |-> chunkStartPosition,
            emitted |-> <<>>,
            via     |-> <<>>]
      ELSE IF currentChunk # <<>>
      THEN [chunk   |-> currentChunk \o <<NL, NL>> \o paragraph,
            start   |-> chunkStartPosition,
            emitted |-> <<>>,
            via     |-> <<>>]
      ELSE [chunk   |-> paragraph,
            start   |-> currentPosition,
            emitted |-> <<>>,
            via     |-> <<>>]

\* The second half of an iteration (lines 78-97): the break at a sentence end
\* of the buffer `chunk` that starts at `start`, index being the next chunkIndex.
breakAtSentence(chunk, start, index) ==
  LET sentenceBreak == findGoodBreakPoint(chunk)
  IN  IF Len(chunk) >= targetSize /\ sentenceBreak > minSize
      THEN [chunk   |-> trim(substringFrom(chunk, sentenceBreak - overlapSize)),
            start   |-> start + sentenceBreak - overlapSize,
            emitted |-> <<createChunk(trim(substring(chunk, 0, sentenceBreak)),
                                      index, start, start + sentenceBreak,
                                      pageBreaks)>>,
            via     |-> <<"sentenceBreak">>]
      ELSE [chunk |-> chunk, start |-> start, emitted |-> <<>>, via |-> <<>>]

\* A loop iteration on a non-empty paragraph (lines 39-98).
processParagraph ==
  /\ ckPc = "loop"
  /\ paraIndex < Len(paragraphs)
  /\ nextParagraph # <<>>
  /\ LET added  == addParagraph(nextParagraph)
         broken == breakAtSentence(added.chunk, added.start,
                                   chunkIndex + Len(added.emitted))
     IN  /\ outChunks' = outChunks \o added.emitted \o broken.emitted
         /\ emittedBy' = emittedBy \o added.via \o broken.via
         /\ chunkIndex' = chunkIndex + Len(added.emitted) + Len(broken.emitted)
         /\ currentChunk' = broken.chunk
         /\ chunkStartPosition' = broken.start
  /\ currentPosition' = currentPosition + Len(nextParagraph) + 2
  /\ paraIndex' = paraIndex + 1
  /\ UNCHANGED <<text, pageBreaks, paragraphs, ckPc, storeVars, chatVars, appVars>>

\* A variant that pushes the last buffer whatever its length.
finishChunkTextKeepingSmall ==
  /\ ckPc = "loop"
  /\ paraIndex = Len(paragraphs)
  /\ IF trim(currentChunk) # <<>>
     THEN /\ outChunks' = Append(outChunks,
                                 createChunk(trim(currentChunk), chunkIndex,
                                             chunkStartPosition,
                                             currentPosition - 1, pageBreaks))
          /\ emittedBy' = Append(emittedBy, "final")
          /\ chunkIndex' = chunkIndex + 1
     ELSE UNCHANGED <<outChunks, emittedBy, chunkIndex>>
  /\ ckPc' = "done"
  /\ UNCHANGED <<text, pageBreaks, paragraphs, paraIndex, currentPosition,
                 currentChunk, chunkStartPosition, storeVars, chatVars, appVars>>

\* After the loop (lines 100-111): the final chunk, and the return.
finishChunkText ==
  /\ ckPc = "loop"
  /\ paraIndex = Len(paragraphs)
  /\ IF trim(currentChunk) # <<>> /\ Len(currentChunk) >= minSize
     THEN /\ outChunks' = Append(outChunks,
                                 createChunk(trim(currentChunk), chunkIndex,
                                             chunkStartPosition,
                                             currentPosition - 1, pageBreaks))
          /\ emittedBy' = Append(emittedBy, "final")
          /\ chunkIndex' = chunkIndex + 1
     ELSE UNCHANGED <<outChunks, emittedBy, chunkIndex>>
  /\ ckPc' = "done"
  /\ UNCHANGED <<text, pageBreaks, paragraphs, paraIndex, currentPosition,
                 currentChunk, chunkStartPosition, storeVars, chatVars, appVars>>

\* ------------------------------------------------------ text utilities

\* A call of extractTerms(text). The utilities keep no state between calls: a
\* run is one call.
extractTermsCall ==
  /\ ret.op = "none"
  /\ \E t \in TermTexts :
       ret' = [op |-> "extractTerms", text |-> t, terms |-> extractTerms(t)]
  /\ UNCHANGED <<documentChunks, chunks, vocabulary, idfScores, isInitialized,
                 chunkerVars, chatVars, appVars>>

\* A call of extractKeySentences(text, queryTerms).
extractKeySentencesCall ==
  /\ ret.op = "none"
  /\ \E t \in KeyTexts, queryTerms \in KeyTermLists :
       ret' = [op |-> "extractKeySentences", text |-> t, queryTerms |-> queryTerms,
               sentences |-> extractKeySentences(t, queryTerms)]
  /\ UNCHANGED <<documentChunks, chunks, vocabulary, idfScores, isInitialized,
                 chunkerVars, chatVars, appVars>>

\* ---------------------------------------------------------- ChatInterface

\* The topK handleSubmit passes to search.
chatTopK == 3

\* 0.05, 0.1 and 0.2 of handleSubmit, in the unit of similarities.
noMatchThreshold == 50

relevanceThreshold == 100

additionalContextThreshold == 200

\* The fixed texts of handleSubmit; each is one element of a content sequence.
NoMatchMessage ==
  <<"I couldn't find information about that topic in the document. Please try rephrasing your question or ask about something else that might be covered in the PDF.">>

NotRelevantMessage ==
  <<"I found some potentially related content, but it doesn't seem directly relevant to your question. Could you try asking more specifically about topics covered in the document?">>

SearchErrorMessage ==
  <<"I encountered an error while searching the document. Please try your question again.">>

AdditionalContextHeader == <<NL, NL, "Additional context:", NL>>

\* What llmGenerateResponse resolves with: generateResponse throws on an empty
\* text, so a text that is not empty.
GeneratedText == <<"generated text">>

\* array.join(sep).
RECURSIVE joinWith(_, _)
joinWith(arr, sep) ==
  IF arr = <<>> THEN <<>>
  ELSE IF Len(arr) = 1 THEN arr[1]
  ELSE arr[1] \o sep \o joinWith(Tail(arr), sep)

\* What vectorStore.search(query, topK) can resolve with on the built store.
searchOutcomes(query, topK) ==
  LET queryTerms  == extractTerms(query)
      queryVector == calculateTFIDF(queryTerms, idfScores)
  IN  {searchResults(sorted, topK, queryTerms) :
         sorted \in sortOutcomes(similaritiesOf(queryVector))}

\* searchResults.length === 0 || searchResults[0].similarity < 0.05.
noMatch(results) ==
  \/ Len(results) = 0
  \/ /\ ~IsNaN(results[1].similarity)
     /\ results[1].similarity < noMatchThreshold

\* A variant without the filter.
relevantResultsUnfiltered(results) == results

\* searchResults.filter(result => result.similarity > 0.1).
relevantResultsOf(results) ==
  SelectSeq(results, LAMBDA result :
    ~IsNaN(result.similarity) /\ result.similarity > relevanceThreshold)

\* The simple retrieval answer: the relevant sentences of the top result, or
\* its chunk text when it has none.
retrievalAnswer(topResult) ==
  IF Len(topResult.relevantSentences) > 0
  THEN joinWith(topResult.relevantSentences, <<SP>>)
  ELSE topResult.chunk.text

\* The answer without an LLM (lines 124-135).
answerWithoutLLM(relevantResults) ==
  IF /\ Len(relevantResults) > 1
     /\ ~IsNaN(relevantResults[2].similarity)
     /\ relevantResults[2].similarity > additionalContextThreshold
  THEN retrievalAnswer(relevantResults[1]) \o AdditionalContextHeader
         \o relevantResults[2].chunk.text
  ELSE retrievalAnswer(relevantResults[1])

\* The messages; id, timestamp and processingTime come from the clock and are
\* left out. An assistant message without sources has no sources field.
userMessage(content) == [type |-> "user", content |-> content]

plainMessage(content) ==
  [type |-> "assistant", content |-> content, isLLMGenerated |-> FALSE]

sourcedMessage(content, sources, isLLMGenerated) ==
  [type |-> "assistant", content |-> content, sources |-> sources,
   isLLMGenerated |-> isLLMGenerated]

\* The welcome message of the effect that runs once the document is loaded.
WelcomeWithLLM ==
  <<"Hello! I'm ready to answer questions about your document using advanced AI.">>

WelcomeWithoutLLM ==
  <<"Hello! I'm ready to answer questions about your document.">>

welcomeMessage(llm) ==
  [type |-> "assistant",
   content |-> IF llm THEN WelcomeWithLLM ELSE WelcomeWithoutLLM,
   isLLMGenerated |-> llm]

\* isDocumentLoaded as App passes it: documentChunks.length > 0, set together
\* with the construction of the store.
isDocumentLoaded == isInitialized /\ Len(documentChunks) > 0

\* The user messages so far.
submissions == Cardinality({i \in 1..Len(messages) : messages[i].type = "user"})

\* The effect of lines 34-50. llm: whether llmGenerateResponse was passed.
showWelcome(llm) ==
  /\ isDocumentLoaded
  /\ Len(messages) = 0
  /\ chatPc = "idle"
  /\ messages' = <<welcomeMessage(llm)>>
  /\ UNCHANGED <<isSearching, isGenerating, chatPc, pending, handled>>
  /\ UNCHANGED <<storeVars, chunkerVars, appVars>>

\* A variant in which the failure of the LLM reaches the outer catch.
fallbackMessageAsError(relevantResults) ==
  [type |-> "assistant", content |-> SearchErrorMessage]

\* The assistant message after the LLM call threw (lines 113-122, 140-148).
fallbackMessage(relevantResults) ==
  sourcedMessage(retrievalAnswer(relevantResults[1]), relevantResults, FALSE)

\* The record of a finished handleSubmit.
Handled(input, results, llm) ==
  [op |-> "handleSubmit", input |-> input, searchResults |-> results, llm |-> llm]

\* handleSubmit when the reply needs no LLM: the user message, the assistant
\* message, isSearching true then false again.
replyNow(input, results, message) ==
  /\ messages' = messages \o <<userMessage(trim(input)), message>>
  /\ handled' = Handled(input, results, "notCalled")
  /\ UNCHANGED <<isSearching, isGenerating, chatPc, pending>>

\* handleSubmit up to the await of llmGenerateResponse (lines 52-111), or to its
\* end when the LLM is not called. llm: whether llmGenerateResponse was passed.
\* The form that submits is rendered only when isDocumentLoaded (line 172).
handleSubmit(input, llm) ==
  /\ isDocumentLoaded
  /\ trim(input) # <<>>
  /\ isInitialized
  /\ ~isSearching
  /\ ~isGenerating
  /\ chatPc = "idle"
  /\ submissions < MaxSubmits
  /\ \E results \in searchOutcomes(trim(input), chatTopK) :
       LET relevantResults == relevantResultsOf(results)
       IN  IF noMatch(results)
           THEN replyNow(input, results, plainMessage(NoMatchMessage))
           ELSE IF Len(relevantResults) = 0
           THEN replyNow(input, results, plainMessage(NotRelevantMessage))
           ELSE IF ~llm
           THEN replyNow(input, results,
                         sourcedMessage(answerWithoutLLM(relevantResults),
                                        relevantResults, FALSE))
           ELSE /\ messages' = Append(messages, userMessage(trim(input)))
                /\ isSearching' = TRUE
                /\ isGenerating' = TRUE
                /\ chatPc' = "awaitLLM"
                /\ pending' = [op |-> "handleSubmit", input |-> input,
                               searchResults |-> results,
                               relevantResults |-> relevantResults]
                /\ UNCHANGED handled
  /\ UNCHANGED <<storeVars, chunkerVars, appVars>>

\* handleSubmit when a search or a generation is under way: the test of line 55
\* makes it return.
handleSubmitIgnored(input) ==
  /\ isDocumentLoaded
  /\ isSearching \/ isGenerating
  /\ handled' = [op |-> "ignored", blank |-> trim(input) = <<>>]
  /\ UNCHANGED <<messages, isSearching, isGenerating, chatPc, pending>>
  /\ UNCHANGED <<storeVars, chunkerVars, appVars>>

\* llmGenerateResponse resolved (lines 111-112, 140-150, 163-165).
llmReturned ==
  /\ chatPc = "awaitLLM"
  /\ messages' = Append(messages,
                        sourcedMessage(GeneratedText, pending.relevantResults, TRUE))
  /\ handled' = Handled(pending.input, pending.searchResults, "returned")
  /\ isSearching' = FALSE
  /\ isGenerating' = FALSE
  /\ chatPc' = "idle"
  /\ pending' = [op |-> "none"]
  /\ UNCHANGED <<storeVars, chunkerVars, appVars>>

\* A variant without the finally block.
llmThrewStillSearching ==
  /\ chatPc = "awaitLLM"
  /\ messages' = Append(messages, fallbackMessage(pending.relevantResults))
  /\ handled' = Handled(pending.input, pending.searchResults, "threw")
  /\ isGenerating' = FALSE
  /\ chatPc' = "idle"
  /\ pending' = [op |-> "none"]
  /\ UNCHANGED isSearching
  /\ UNCHANGED <<storeVars, chunkerVars, appVars>>

\* llmGenerateResponse rejected (lines 113-122, 140-150, 163-165).
llmThrew ==
  /\ chatPc = "awaitLLM"
  /\ messages' = Append(messages, fallbackMessage(pending.relevantResults))
  /\ handled' = Handled(pending.input, pending.searchResults, "threw")
  /\ isSearching' = FALSE
  /\ isGenerating' = FALSE
  /\ chatPc' = "idle"
  /\ pending' = [op |-> "none"]
  /\ UNCHANGED <<storeVars, chunkerVars, appVars>>

\* ---------------------------------------------------------------- useWebLLM

\* The texts chat.completions.create can resolve with: a text, and none.
CompletionTexts == {GeneratedText, <<>>}

\* The start of an attempt (lines 57-81 and 107-108): the state update, the new
\* engine, the call of engine.reload, and the promise stored and returned.
startInitialization ==
  /\ attempts < MaxAttempts
  /\ attempts' = attempts + 1
  /\ loadingState' = [loadingState EXCEPT !.isLoading = TRUE, !.progress = 0,
                                          !.stage = "Initializing WebLLM...",
                                          !.error = "null"]
  /\ reloading' = reloading \cup {attempts + 1}
  /\ initializationRef' = attempts + 1
  /\ llmRet' = [op |-> "initializeLLM", promise |-> attempts + 1, started |-> TRUE]
  /\ UNCHANGED engineRef

\* A variant without the test of initializationRef.
initializeLLMUnguarded ==
  /\ mounted
  /\ IF engineRef # 0
     THEN /\ llmRet' = [op |-> "initializeLLM", promise |-> 0, started |-> FALSE]
          /\ UNCHANGED <<loadingState, engineRef, initializationRef, attempts, reloading>>
     ELSE startInitialization
  /\ UNCHANGED <<completions, mounted, loadVars, storeVars, chunkerVars, chatVars>>

\* initializeLLM (lines 46-109), called by the buttons of LLMStatus. The call
\* runs to its return without a break: the first await is inside the promise it
\* stores. promise is the attempt whose promise the call returns, 0 for none.
initializeLLM ==
  /\ mounted
  /\ IF initializationRef # 0
     THEN /\ llmRet' = [op |-> "initializeLLM", promise |-> initializationRef,
                        started |-> FALSE]
          /\ UNCHANGED <<loadingState, engineRef, initializationRef, attempts, reloading>>
     ELSE IF engineRef # 0
     THEN /\ llmRet' = [op |-> "initializeLLM", promise |-> 0, started |-> FALSE]
          /\ UNCHANGED <<loadingState, engineRef, initializationRef, attempts, reloading>>
     ELSE startInitialization
  /\ UNCHANGED <<completions, mounted, loadVars, storeVars, chunkerVars, chatVars>>

\* The reports the engine makes while it loads: progress, and a text or none.
ProgressReports ==
  {[progress |-> pr, text |-> t] : pr \in {0, 50, 100}, t \in {"", "Fetching model"}}

\* The progress callback of attempt a (lines 71-77); report.progress * 100 is
\* given rounded.
initProgress(a, report) ==
  /\ a \in reloading
  /\ loadingState' =
       [loadingState EXCEPT !.progress = report.progress,
                            !.stage = IF report.text # "" THEN report.text
                                      ELSE "Loading model..."]
  /\ UNCHANGED <<engineRef, initializationRef, attempts, reloading, completions,
                 mounted, llmRet, loadVars, storeVars, chunkerVars, chatVars>>

\* engine.reload of attempt a resolved (lines 83-93).
reloadResolved(a) ==
  /\ a \in reloading
  /\ reloading' = reloading \ {a}
  /\ engineRef' = a
  /\ loadingState' = [loadingState EXCEPT !.isLoading = FALSE, !.progress = 100,
                                          !.stage = "Model ready!", !.isReady = TRUE]
  /\ UNCHANGED <<initializationRef, attempts, completions, mounted, llmRet,
                 loadVars, storeVars, chunkerVars, chatVars>>

\* engine.reload of attempt a rejected (lines 95-104).
reloadRejected(a) ==
  /\ a \in reloading
  /\ reloading' = reloading \ {a}
  /\ engineRef' = 0
  /\ loadingState' = [loadingState EXCEPT !.isLoading = FALSE,
                                          !.error = "Failed to initialize LLM",
                                          !.isReady = FALSE]
  /\ UNCHANGED <<initializationRef, attempts, completions, mounted, llmRet,
                 loadVars, storeVars, chunkerVars, chatVars>>

\* A variant that tests nothing before it asks for a completion.
generateResponseUnguarded ==
  /\ mounted
  /\ isGenerating' = TRUE
  /\ completions' = completions + 1
  /\ llmRet' = [op |-> "generateResponse", outcome |-> "pending"]
  /\ UNCHANGED <<messages, isSearching, chatPc, pending, handled>>
  /\ UNCHANGED <<loadingState, engineRef, initializationRef, attempts, reloading,
                 mounted, loadVars, storeVars, chunkerVars>>

\* generateResponse up to its await (lines 114-143), called from an event
\* handler of the component that rendered last: the isGenerating of its closure
\* is the state.
generateResponse ==
  /\ mounted
  /\ IF engineRef = 0
     THEN /\ llmRet' = [op |-> "generateResponse", outcome |-> "threw",
                        message |-> "LLM not initialized. Please initialize first."]
          /\ UNCHANGED <<isGenerating, completions>>
     ELSE IF isGenerating
     THEN /\ llmRet' = [op |-> "generateResponse", outcome |-> "threw",
                        message |-> "Already generating a response. Please wait."]
          /\ UNCHANGED <<isGenerating, completions>>
     ELSE /\ isGenerating' = TRUE
          /\ completions' = completions + 1
          /\ llmRet' = [op |-> "generateResponse", outcome |-> "pending"]
  /\ UNCHANGED <<messages, isSearching, chatPc, pending, handled>>
  /\ UNCHANGED <<loadingState, engineRef, initializationRef, attempts, reloading,
                 mounted, loadVars, storeVars, chunkerVars>>

\* chat.completions.create resolved (lines 151-157, 159-164).
completionResolved(generatedText) ==
  /\ completions > 0
  /\ completions' = completions - 1
  /\ isGenerating' = FALSE
  /\ llmRet' = IF generatedText # <<>>
               THEN [op |-> "generateResponse", outcome |-> "returned",
                     text |-> generatedText]
               ELSE [op |-> "generateResponse", outcome |-> "threw",
                     message |-> "No response generated from LLM"]
  /\ UNCHANGED <<messages, isSearching, chatPc, pending, handled>>
  /\ UNCHANGED <<loadingState, engineRef, initializationRef, attempts, reloading,
                 mounted, loadVars, storeVars, chunkerVars>>

\* chat.completions.create rejected (lines 159-164).
completionRejected ==
  /\ completions > 0
  /\ completions' = completions - 1
  /\ isGenerating' = FALSE
  /\ llmRet' = [op |-> "generateResponse", outcome |-> "threw",
                message |-> "Failed to generate response"]
  /\ UNCHANGED <<messages, isSearching, chatPc, pending, handled>>
  /\ UNCHANGED <<loadingState, engineRef, initializationRef, attempts, reloading,
                 mounted, loadVars, storeVars, chunkerVars>>

\* resetLLM (lines 170-188), which only the cleanup of the hook calls, when the
\* component unmounts.
resetLLM ==
  /\ mounted
  /\ mounted' = FALSE
  /\ engineRef' = 0
  /\ initializationRef' = 0
  /\ loadingState' = [isLoading |-> FALSE, progress |-> 0, stage |-> "",
                      error |-> "null", isReady |-> FALSE]
  /\ isGenerating' = FALSE
  /\ UNCHANGED <<messages, isSearching, chatPc, pending, handled>>
  /\ UNCHANGED <<attempts, reloading, completions, llmRet,
                 loadVars, storeVars, chunkerVars>>

\* ------------------------------------------- loadPdfFromAssets, pdfUtils

\* The start of the effect of App (lines 43-50): up to the await of fetchPdfFile.
loadPdfFromAssets ==
  /\ loadPc = "idle"
  /\ loadError' = ""
  /\ processingStage' = "Loading document..."
  /\ loadPc' = "fetching"
  /\ UNCHANGED <<file, extractedData, isProcessing, vectorStoreRef, stateChanges>>
  /\ UNCHANGED <<llmVars, storeVars, chunkerVars, chatVars>>

\* fetchPdfFile resolved: it always makes a File of type application/pdf
\* (pdfUtils.ts:40). App goes on to call processPdfDocument.
fetchResolved ==
  /\ loadPc = "fetching"
  /\ file' = [type |-> "application/pdf", caller |-> "loadPdfFromAssets"]
  /\ loadPc' = "process"
  /\ UNCHANGED <<extractedData, isProcessing, processingStage, loadError,
                 vectorStoreRef, stateChanges>>
  /\ UNCHANGED <<llmVars, storeVars, chunkerVars, chatVars>>

\* fetchPdfFile rejected (pdfUtils.ts:43-46): App's catch block (lines 69-74).
fetchRejected ==
  /\ loadPc = "fetching"
  /\ loadError' = "Failed to load PDF from /assets/document.pdf"
  /\ processingStage' = ""
  /\ isProcessing' = FALSE
  /\ loadPc' = "failed"
  /\ UNCHANGED <<file, extractedData, vectorStoreRef, stateChanges>>
  /\ UNCHANGED <<llmVars, storeVars, chunkerVars, chatVars>>

\* A call of processPdfDocument by another caller, with a file of any type and
\* the same two callbacks.
processPdfDocumentCall(type) ==
  /\ loadPc = "idle"
  /\ file' = [type |-> type, caller |-> "direct"]
  /\ loadPc' = "process"
  /\ UNCHANGED <<extractedData, isProcessing, processingStage, loadError,
                 vectorStoreRef, stateChanges>>
  /\ UNCHANGED <<llmVars, storeVars, chunkerVars, chatVars>>

\* A variant that signals the processing state before it looks at the type.
processPdfDocumentSignalFirst ==
  /\ loadPc = "process"
  /\ isProcessing' = TRUE
  /\ stateChanges' = Append(stateChanges, TRUE)
  /\ IF file.type # "application/pdf"
     THEN /\ loadPc' = "processThrew"
          /\ UNCHANGED processingStage
     ELSE /\ processingStage' = "Extracting text from PDF..."
          /\ loadPc' = "extracting"
  /\ UNCHANGED <<file, extractedData, loadError, vectorStoreRef>>
  /\ UNCHANGED <<llmVars, storeVars, chunkerVars, chatVars>>

\* processPdfDocument up to its first await (pdfUtils.ts:61-70).
processPdfDocument ==
  /\ loadPc = "process"
  /\ IF file.type # "application/pdf"
     THEN /\ loadPc' = "processThrew"
          /\ UNCHANGED <<isProcessing, processingStage, stateChanges>>
     ELSE /\ isProcessing' = TRUE
          /\ stateChanges' = Append(stateChanges, TRUE)
          /\ processingStage' = "Extracting text from PDF..."
          /\ loadPc' = "extracting"
  /\ UNCHANGED <<file, extractedData, loadError, vectorStoreRef>>
  /\ UNCHANGED <<llmVars, storeVars, chunkerVars, chatVars>>

\* extractTextFromPDF resolved (pdfUtils.ts:70-74): up to the await of the timer.
extractionResolved(data) ==
  /\ loadPc = "extracting"
  /\ extractedData' = [outcome |-> "resolved", text |-> data.text,
                       pageBreaks |-> data.pageBreaks]
  /\ processingStage' = "Finalizing document processing..."
  /\ loadPc' = "finalizing"
  /\ UNCHANGED <<file, isProcessing, loadError, vectorStoreRef, stateChanges>>
  /\ UNCHANGED <<llmVars, storeVars, chunkerVars, chatVars>>

\* extractTextFromPDF rejected (pdfUtils.ts:79-85): the catch and the finally.
extractionRejected ==
  /\ loadPc = "extracting"
  /\ extractedData' = [outcome |-> "rejected"]
  /\ processingStage' = ""
  /\ isProcessing' = FALSE
  /\ stateChanges' = Append(stateChanges, FALSE)
  /\ loadPc' = "processThrew"
  /\ UNCHANGED <<file, loadError, vectorStoreRef>>
  /\ UNCHANGED <<llmVars, storeVars, chunkerVars, chatVars>>

\* The timer of processPdfDocument fired (pdfUtils.ts:74-77, 83-85): the return.
processingFinalized ==
  /\ loadPc = "finalizing"
  /\ processingStage' = ""
  /\ isProcessing' = FALSE
  /\ stateChanges' = Append(stateChanges, FALSE)
  /\ loadPc' = "processed"
  /\ UNCHANGED <<file, extractedData, loadError, vectorStoreRef>>
  /\ UNCHANGED <<llmVars, storeVars, chunkerVars, chatVars>>

\* App after processPdfDocument returned (lines 59-61): up to the await of the timer.
segmentingStarted ==
  /\ loadPc = "processed"
  /\ file.caller = "loadPdfFromAssets"
  /\ processingStage' = "Segmenting text into chunks..."
  /\ loadPc' = "segmenting"
  /\ UNCHANGED <<file, extractedData, isProcessing, loadError, vectorStoreRef,
                 stateChanges>>
  /\ UNCHANGED <<llmVars, storeVars, chunkerVars, chatVars>>

\* App after processPdfDocument threw: the catch block (lines 69-74).
loadFailed ==
  /\ loadPc = "processThrew"
  /\ file.caller = "loadPdfFromAssets"
  /\ loadError' = "PDF processing failed"
  /\ processingStage' = ""
  /\ isProcessing' = FALSE
  /\ loadPc' = "failed"
  /\ UNCHANGED <<file, extractedData, vectorStoreRef, stateChanges>>
  /\ UNCHANGED <<llmVars, storeVars, chunkerVars, chatVars>>

\* The timer of App fired (lines 61-63): chunkText is called and enters its loop.
chunkTextCalled ==
  /\ loadPc = "segmenting"
  /\ text' = extractedData.text
  /\ pageBreaks' = extractedData.pageBreaks
  /\ paragraphs' = splitParagraphs(extractedData.text)
  /\ ckPc' = "loop"
  /\ loadPc' = "chunking"
  /\ UNCHANGED <<paraIndex, outChunks, chunkIndex, currentPosition, currentChunk,
                 chunkStartPosition, emittedBy>>
  /\ UNCHANGED <<file, extractedData, isProcessing, processingStage, loadError,
                 vectorStoreRef, stateChanges>>
  /\ UNCHANGED <<llmVars, storeVars, chatVars>>

\* chunkText returned: handleDocumentProcessed (lines 29-36), with the
\* constructor of the store, and the end of the try block (lines 66-67).
handleDocumentProcessed ==
  /\ loadPc = "chunking"
  /\ ckPc = "done"
  /\ documentChunks' = outChunks
  /\ LET allTerms == allTermsOf(outChunks)
         idf      == calculateIDF(allTerms)
     IN  /\ vocabulary' = UNION {Range(allTerms[i]) : i \in 1..Len(allTerms)}
         /\ idfScores' = idf
         /\ chunks' = [i \in 1..Len(outChunks) |->
                         ProcessedChunk(outChunks[i],
                                        calculateTFIDF(allTerms[i], idf),
                                        Len(allTerms[i]))]
  /\ isInitialized' = TRUE
  /\ vectorStoreRef' = TRUE
  /\ processingStage' = ""
  /\ loadPc' = "done"
  /\ UNCHANGED <<file, extractedData, isProcessing, loadError, stateChanges>>
  /\ UNCHANGED <<ret, llmVars, chunkerVars, chatVars>>

\* --------------------------------------------------------- specifications

\* The VectorStore: a constructor call on any chunk list, then its public
\* operations in any order.
InitStore ==
  /\ documentChunks \in ChunkLists
  /\ StoreFields
  /\ ChunkerIdle
  /\ ChatIdle
  /\ AppIdle

\* The constructor runs first; the public operations are only reachable on the
\* constructed object.
NextStore ==
  \/ initializeStore
  \/ /\ isInitialized
     /\ \E query \in QueryTexts, topK \in 0..MaxTopK : search(query, topK)
  \/ /\ isInitialized
     /\ getStats
  \/ /\ isInitialized
     /\ \E terms \in TermLists : findChunksWithTerms(terms)
  \/ /\ isInitialized
     /\ \E limit \in 0..MaxTopK : getTopTerms(limit)

SpecStore == InitStore /\ [][NextStore]_vars

\* The VectorStore with search and getStats called at any point of the object's
\* life, before the constructor's body has run included.
NextEarlyCalls ==
  \/ initializeStore
  \/ \E query \in QueryTexts, topK \in 0..MaxTopK : search(query, topK)
  \/ getStats

SpecEarlyCalls == InitStore /\ [][NextEarlyCalls]_vars

\* The construction of a store from any chunk list of ConstructionChunkLists.
InitConstruction ==
  /\ documentChunks \in ConstructionChunkLists
  /\ StoreFields
  /\ ChunkerIdle
  /\ ChatIdle
  /\ AppIdle

NextConstruction == initializeStore

SpecConstruction == InitConstruction /\ [][NextConstruction]_vars

\* chunkText on any document of the model.
InitChunker ==
  /\ text \in Documents
  /\ pageBreaks \in PageBreakLists
  /\ chunkTextEntry
  /\ documentChunks = <<>>
  /\ StoreFields
  /\ ChatIdle
  /\ AppIdle

NextChunker ==
  \/ skipEmptyParagraph
  \/ processParagraph
  \/ finishChunkText

SpecChunker == InitChunker /\ [][NextChunker]_vars

\* The exported text utilities, called on any text of the model.
InitTextUtils ==
  /\ documentChunks = <<>>
  /\ StoreFields
  /\ ChunkerIdle
  /\ ChatIdle
  /\ AppIdle

NextTextUtils ==
  \/ extractTermsCall
  \/ extractKeySentencesCall

SpecTextUtils == InitTextUtils /\ [][NextTextUtils]_vars

\* The chat over a store built from any chunk list of the model.
NextChat ==
  \/ initializeStore
  \/ \E llm \in BOOLEAN : showWelcome(llm)
  \/ \E input \in ChatInputs, llm \in BOOLEAN : handleSubmit(input, llm)
  \/ \E input \in ChatInputs : handleSubmitIgnored(input)
  \/ llmReturned
  \/ llmThrew

SpecChat == InitStore /\ [][NextChat]_vars

\* The same, when the promise of llmGenerateResponse settles: generateResponse
\* resolves or rejects once the engine answered.
SpecChatLive == InitStore /\ [][NextChat]_vars /\ WF_vars(llmReturned \/ llmThrew)

\* The hook under the clicks of LLMStatus, the calls of generateResponse and
\* the answers of the engine.
InitLLM ==
  /\ documentChunks = <<>>
  /\ StoreFields
  /\ ChunkerIdle
  /\ ChatIdle
  /\ AppIdle

NextLLM ==
  \/ initializeLLM
  \/ \E a \in 1..MaxAttempts, report \in ProgressReports : initProgress(a, report)
  \/ \E a \in 1..MaxAttempts : reloadResolved(a)
  \/ \E a \in 1..MaxAttempts : reloadRejected(a)
  \/ generateResponse
  \/ \E generatedText \in CompletionTexts : completionResolved(generatedText)
  \/ completionRejected
  \/ resetLLM

SpecLLM == InitLLM /\ [][NextLLM]_vars

\* App from its first render: the effect that loads the document, and a call
\* of processPdfDocument by another caller. The text extractTextFromPDF resolves
\* with is trimmed and its paragraph breaks are normalised, so that chunkText
\* finds no empty paragraph in it.
InitLoad ==
  /\ documentChunks = <<>>
  /\ StoreFields
  /\ ChunkerIdle
  /\ ChatIdle
  /\ AppIdle

NextLoad ==
  \/ loadPdfFromAssets
  \/ fetchResolved
  \/ fetchRejected
  \/ \E type \in FileTypes : processPdfDocumentCall(type)
  \/ processPdfDocument
  \/ \E data \in ExtractedTexts : extractionResolved(data)
  \/ extractionRejected
  \/ processingFinalized
  \/ segmentingStarted
  \/ loadFailed
  \/ chunkTextCalled
  \/ processParagraph
  \/ finishChunkText
  \/ handleDocumentProcessed

SpecLoad == InitLoad /\ [][NextLoad]_vars

\* ------------------------------------------------------------ properties

\* A search call has returned a result list.
SearchReturned == ret.op = "search" /\ "results" \in DOMAIN ret

\* a >= b and a > b on numbers: false as soon as one of them is NaN.
numGeq(a, b) == ~IsNaN(a) /\ ~IsNaN(b) /\ a >= b

numGt(a, b) == ~IsNaN(a) /\ ~IsNaN(b) /\ a > b

\* The similarity search computes for chunk i and the query.
similarityTo(query, i) ==
  cosineSimilarity(calculateTFIDF(extractTerms(query), idfScores),
                   chunks[i].tfidfVector)

\* Every score of the vector is 0: its norm is 0.
zeroNorm(vector) == \A i \in 1..Len(vector) : vector[i].score = 0

\* The number of chunks whose term set contains the term.
documentFrequency(term) ==
  Cardinality({i \in 1..Len(chunks) : term \in Range(extractTerms(chunks[i].text))})

\* The number of occurrences of x in the sequence.
occurrences(seq, x) == Cardinality({i \in 1..Len(seq) : seq[i] = x})

\* C1: search returns its results in non-increasing order of similarity, and
\* results of equal similarity in the order of the chunk list.
C1_SortedBySimilarity ==
  SearchReturned =>
    \A i, j \in 1..Len(ret.results) :
      i < j =>
        /\ numGeq(ret.results[i].similarity, ret.results[j].similarity)
        /\ (ret.results[i].similarity = ret.results[j].similarity
              => ret.results[i].chunk.chunkIndex < ret.results[j].chunk.chunkIndex)

\* C2: search(q, k) returns exactly min(k, number of chunks) results.
C2_ResultCount ==
  SearchReturned => Len(ret.results) = Min(ret.topK, Len(chunks))

\* C2 witness: a search that truncated (k below the number of chunks) and one
\* result was returned.
C2_Witness ==
  /\ SearchReturned
  /\ ret.topK = 1
  /\ Len(chunks) = 2
  /\ Len(ret.results) = 1

\* C3: every similarity search reports lies in [0, 1].
C3_SimilarityBounds ==
  SearchReturned =>
    \A i \in 1..Len(ret.results) :
      /\ numGeq(ret.results[i].similarity, 0)
      /\ numGeq(SimScale, ret.results[i].similarity)

\* C4: a query without surviving terms has similarity exactly 0 to every chunk,
\* and a chunk whose vector has norm 0 has similarity 0 to every query.
C4_ZeroVectorSafety ==
  SearchReturned =>
    \A i \in 1..Len(ret.results) :
      /\ extractTerms(ret.query) = <<>> => ret.results[i].similarity = 0
      /\ zeroNorm(ret.results[i].chunk.tfidfVector) => ret.results[i].similarity = 0

\* C5: the term frequency of a chunk's vector is the raw occurrence count of the
\* term over the raw count of surviving tokens of the chunk text, repeats
\* included, and termCount is that raw total.
C5_RawTermFrequency ==
  isInitialized =>
    \A i \in 1..Len(chunks) :
      LET raw == survivingTokens(chunks[i].text)
          vector == chunks[i].tfidfVector
      IN  /\ chunks[i].termCount = Len(raw)
          /\ \A k \in 1..Len(vector) :
               vector[k].score =
                 RoundDiv(occurrences(raw, vector[k].term) * idfScores[vector[k].term],
                          Len(raw))

\* What C6 says of every vocabulary term: idf = ln(N / df) with 1 <= df <= N,
\* which is 0 for a term of all N chunks.
idfIsLogRatio ==
  /\ DOMAIN idfScores = vocabulary
  /\ \A term \in vocabulary :
       /\ documentFrequency(term) >= 1
       /\ documentFrequency(term) <= Len(chunks)
       /\ idfScores[term] = MathLogRatio(Len(chunks), documentFrequency(term))
       /\ documentFrequency(term) = Len(chunks) => idfScores[term] = 0

\* A term of exactly one chunk has a strictly higher idf than a term of all chunks.
rareAboveCommon ==
  \A rare, common \in vocabulary :
    (documentFrequency(rare) = 1 /\ documentFrequency(common) = Len(chunks))
      => idfScores[rare] > idfScores[common]

\* C6 as stated: idf = ln(N / df), 0 for a term of all N chunks, and a term of
\* exactly 1 of N chunks strictly above a term of all N chunks, for every N.
C6_IdfAsStated == isInitialized => (idfIsLogRatio /\ rareAboveCommon)

\* C6 amended: the same, the strict inequality for N >= 2 (with N = 1 a term of
\* exactly one chunk is a term of all chunks).
C6_Idf == isInitialized => (idfIsLogRatio /\ (Len(chunks) >= 2 => rareAboveCommon))

\* C6 witness: an index of two chunks with a term of one chunk and a term of both.
C6_Witness ==
  /\ isInitialized
  /\ Len(chunks) = 2
  /\ \E rare, common \in vocabulary :
       /\ documentFrequency(rare) = 1
       /\ documentFrequency(common) = 2
       /\ idfScores[rare] > 0
       /\ idfScores[common] = 0

\* C7: every chunk chunkText emits is at least minSize characters long.
C7_ChunkMinSize ==
  \A i \in 1..Len(outChunks) : Len(outChunks[i].text) >= minSize

\* C8: the chunk at position i of the list has chunkIndex i and id chunk-i
\* (positions counted from 0), whichever push produced it.
C8_ContiguousIndex ==
  \A i \in 1..Len(outChunks) :
    /\ outChunks[i].chunkIndex = i - 1
    /\ outChunks[i].id = <<"chunk-", i - 1>>

\* C8 witness: chunkText returned chunks from all three pushes.
C8_Witness ==
  /\ ckPc = "done"
  /\ {"maxSize", "sentenceBreak", "final"} \subseteq Range(emittedBy)

\* C9: a query equal to the text of a chunk with at least one term returns this
\* chunk first, its similarity strictly above that of every other chunk.
C9_SelfSimilarity ==
  (SearchReturned /\ ret.topK >= 1) =>
    \A c \in 1..Len(chunks) :
      (ret.query = chunks[c].text /\ extractTerms(chunks[c].text) # <<>>) =>
        /\ ret.results[1].chunk.chunkIndex = chunks[c].chunkIndex
        /\ \A d \in 1..Len(chunks) :
             d # c => numGt(similarityTo(ret.query, c), similarityTo(ret.query, d))

\* The index the constructor builds from documentChunks.
builtIdf == calculateIDF(allTermsOf(documentChunks))

builtChunks ==
  [i \in 1..Len(documentChunks) |->
     ProcessedChunk(documentChunks[i],
                    calculateTFIDF(allTermsOf(documentChunks)[i], builtIdf),
                    Len(allTermsOf(documentChunks)[i]))]

\* What search(query, topK) can return on the index as the constructor left it.
resultsWhenAlone(query, topK) ==
  LET queryTerms  == extractTerms(query)
      queryVector == calculateTFIDF(queryTerms, builtIdf)
      similarities ==
        [i \in 1..Len(builtChunks) |->
           [chunk      |-> builtChunks[i],
            similarity |-> cosineSimilarity(queryVector, builtChunks[i].tfidfVector)]]
  IN  {searchResults(sorted, topK, queryTerms) : sorted \in sortOutcomes(similarities)}

\* C10: once the constructor has returned, no public operation changes the
\* vocabulary, the idf table, the chunk list or a chunk's vector, and every
\* search returns what it returns when it runs alone on the built index.
C10_ReadOnly ==
  /\ [][isInitialized =>
          /\ vocabulary' = vocabulary
          /\ idfScores' = idfScores
          /\ chunks' = chunks
          /\ isInitialized']_vars
  /\ [](SearchReturned => ret.results \in resultsWhenAlone(ret.query, ret.topK))

\* C10 witness: a search has returned results on a built index of two chunks.
C10_Witness ==
  /\ SearchReturned
  /\ Len(chunks) = 2
  /\ Len(ret.results) = 2
  /\ chunks = builtChunks

\* C11: getStats reports the isInitialized flag; a search while the flag is false
\* throws the not-initialized error and computes nothing, a search while it is
\* true returns results; and the flag is true only once every chunk of the
\* constructor's list has its TF-IDF vector.
C11_ReadyFlag ==
  /\ [](isInitialized => chunks = builtChunks)
  /\ [][(ret' # ret /\ ret'.op = "search") =>
          IF isInitialized
          THEN DOMAIN ret' = {"op", "query", "topK", "results"}
          ELSE /\ DOMAIN ret' = {"op", "query", "topK", "threw"}
               /\ ret'.threw = "Vector store not initialized"]_vars
  /\ [][(ret' # ret /\ ret'.op = "getStats") =>
          ret'.isInitialized = isInitialized]_vars

\* C11 witness: a search was refused on a store that is not initialized, its
\* chunk list not empty.
C11_Witness ==
  /\ ~isInitialized
  /\ documentChunks # <<>>
  /\ ret.op = "search"
  /\ "threw" \in DOMAIN ret

\* C12: a store built from the empty chunk list has an empty vocabulary, an
\* empty IDF table and no processed chunk; every search on it returns the empty
\* list and getStats reports chunkCount 0, vocabularySize 0, averageChunkLength 0.
C12_EmptyStore ==
  (isInitialized /\ documentChunks = <<>>) =>
    /\ vocabulary = {}
    /\ DOMAIN idfScores = {}
    /\ chunks = <<>>
    /\ ret.op = "search" => (SearchReturned /\ ret.results = <<>>)
    /\ ret.op = "getStats" =>
         /\ ret.chunkCount = 0
         /\ ret.vocabularySize = 0
         /\ ret.averageChunkLength = 0

\* C12 witness: a search for a non-empty query and topK >= 1 returned on the
\* store of the empty chunk list.
C12_Witness ==
  /\ isInitialized
  /\ documentChunks = <<>>
  /\ SearchReturned
  /\ ret.query = TextCatSat
  /\ ret.topK >= 1
  /\ ret.results = <<>>

\* The position of the first occurrence of x in the sequence.
firstOccurrence(seq, x) == CHOOSE i \in 1..Len(seq) : seq[i] = x /\ \A j \in 1..(i - 1) : seq[j] # x

\* C13: extractTerms returns a sequence without repeats, of lower-case terms of
\* the input longer than 2 characters that are not stop words, in the order of
\* their first occurrence in the input; the empty input gives the empty sequence.
C13_ExtractTerms ==
  ret.op = "extractTerms" =>
    LET terms == ret.terms
        words == rawTokens(ret.text)
    IN  /\ \A i, j \in 1..Len(terms) : i # j => terms[i] # terms[j]
        /\ \A i \in 1..Len(terms) :
             /\ toLowerCase(terms[i]) = terms[i]
             /\ Range(terms[i]) \cap UpperCase = {}
             /\ Len(terms[i]) > 2
             /\ terms[i] \notin stopWords
             /\ terms[i] \in Range(words)
        /\ \A i, j \in 1..Len(terms) :
             i < j => firstOccurrence(words, terms[i]) < firstOccurrence(words, terms[j])
        /\ ret.text = <<>> => terms = <<>>

\* C13 witness: a text of three words, a term twice in two capitalisations and a
\* second term, gave the two terms.
C13_Witness ==
  /\ ret.op = "extractTerms"
  /\ ret.text = <<"C","a","t", ",", SP, "d","o","g", SP, "c","a","t">>
  /\ ret.terms = << <<"c","a","t">>, <<"d","o","g">> >>

\* The chunk indexes of a result list, in its order.
rankingOf(results) == [i \in 1..Len(results) |-> results[i].chunk.chunkIndex]

\* The query is the base query with terms added, none of them in the vocabulary.
addsOutOfVocabulary(query, base) ==
  LET added == Range(extractTerms(query)) \ Range(extractTerms(base))
  IN  /\ Range(extractTerms(base)) \subseteq Range(extractTerms(query))
      /\ added # {}
      /\ added \cap vocabulary = {}

\* C14: query terms that are not in the vocabulary are ignored: a query made of
\* a base query and such terms gives every chunk the similarity the base query
\* gives it, and search returns the ranking it returns for the base query.
C14_OutOfVocabularyIgnored ==
  SearchReturned =>
    \A base \in QueryTexts :
      addsOutOfVocabulary(ret.query, base) =>
        /\ \A i \in 1..Len(chunks) :
             similarityTo(ret.query, i) = similarityTo(base, i)
        /\ rankingOf(ret.results)
             \in {rankingOf(results) : results \in resultsWhenAlone(base, ret.topK)}

\* The query terms that occur in the sentence, whatever the case of its letters.
termsFound(sentence, queryTerms) ==
  {term \in Range(queryTerms) : includes(toLowerCase(sentence), term)}

\* The score C15 states: occurrences times term length over the query terms,
\* plus 50 for each distinct term found when more than one is found.
statedScore(sentence, queryTerms) ==
  LET idx == 1..Len(queryTerms)
      sum == SumOver(idx, [i \in idx |->
               countMatches(toLowerCase(sentence), queryTerms[i]) * Len(queryTerms[i])])
      found == Cardinality(termsFound(sentence, queryTerms))
  IN  IF found > 1 THEN sum + 50 * found ELSE sum

\* The sentences of a text: what stands between runs of . ! ?, trimmed.
sentencesOf(t) ==
  {trim(piece) : piece \in Range(splitRuns(t, SentenceEnd))} \ {<<>>}

\* C15: extractKeySentences returns at most 3 sentences of the text, each of
\* positive score and containing a query term, in non-increasing order of the
\* stated score; no query term gives the empty list.
C15_KeySentences ==
  ret.op = "extractKeySentences" =>
    LET out == ret.sentences
    IN  /\ Len(out) <= 3
        /\ \A i \in 1..Len(out) :
             /\ out[i] \in sentencesOf(ret.text)
             /\ statedScore(out[i], ret.queryTerms) > 0
             /\ termsFound(out[i], ret.queryTerms) # {}
        /\ \A i, j \in 1..Len(out) :
             i < j => statedScore(out[i], ret.queryTerms)
                        >= statedScore(out[j], ret.queryTerms)
        /\ ret.queryTerms = <<>> => out = <<>>

\* C15 witness: of four sentences, one without a query term, the three others
\* were returned, the sentence with both terms first.
C15_Witness ==
  /\ ret.op = "extractKeySentences"
  /\ ret.queryTerms = << <<"c","a","t">>, <<"d","o","g">> >>
  /\ ret.text = <<"T","h","e", SP, "o","x", "?", "!", SP>>
                  \o <<"d","o","g", ".", SP>>
                  \o <<"c","a","t", SP, "c","a","t", "!", SP>>
                  \o <<"C","a","t", SP, "d","o","g", ".", SP>>
  /\ ret.sentences = << <<"C","a","t", SP, "d","o","g">>,
                        <<"c","a","t", SP, "c","a","t">>,
                        <<"d","o","g">> >>

\* The positions of the page breaks above the offset.
breaksAbove(offset) == {i \in 1..Len(pageBreaks) : pageBreaks[i] > offset}

\* The page breaks are in ascending order.
ascendingBreaks == \A i, j \in 1..Len(pageBreaks) : i < j => pageBreaks[i] < pageBreaks[j]

\* C16: the page number of a chunk is the 1-based position of the first page
\* break strictly above its startOffset, or the number of breaks plus 1 when
\* there is none; it lies in 1..len(pageBreaks)+1 and, for ascending breaks, does
\* not decrease along the chunk list.
C16_PageNumber ==
  /\ \A k \in 1..Len(outChunks) :
       LET chunk == outChunks[k]
           above == breaksAbove(chunk.startOffset)
       IN  /\ above # {} =>
                /\ chunk.pageNumber \in above
                /\ \A i \in above : chunk.pageNumber <= i
           /\ above = {} => chunk.pageNumber = Len(pageBreaks) + 1
           /\ chunk.pageNumber >= 1
           /\ chunk.pageNumber <= Len(pageBreaks) + 1
  /\ ascendingBreaks =>
       \A k, l \in 1..Len(outChunks) :
         k < l => outChunks[k].pageNumber <= outChunks[l].pageNumber

\* C16 witness: chunkText returned chunks of the first, the second and the last
\* page of a document with two page breaks.
C16_Witness ==
  /\ ckPc = "done"
  /\ Len(pageBreaks) = 2
  /\ {outChunks[k].pageNumber : k \in 1..Len(outChunks)} = {1, 2, 3}

\* The terms chunk i shares with the query.
sharedTerms(query, i) ==
  Range(extractTerms(query)) \cap Range(extractTerms(chunks[i].text))

\* Chunk i shares with the query a term of positive IDF.
sharesPositiveTerm(query, i) ==
  \E term \in sharedTerms(query, i) : idfScores[term] > 0

\* The chunk of chunkIndex c stands in the result list before position i.
rankedBefore(c, i) ==
  \E j \in 1..(i - 1) : ret.results[j].chunk.chunkIndex = c

\* C17: a chunk that shares a term of positive IDF with the query has a
\* similarity above 0, a chunk that shares no term with it has similarity 0, and
\* search ranks the former above the latter.
C17_MatchAboveNoMatch ==
  SearchReturned =>
    \A a, b \in 1..Len(chunks) :
      (sharesPositiveTerm(ret.query, a) /\ sharedTerms(ret.query, b) = {}) =>
        /\ numGt(similarityTo(ret.query, a), 0)
        /\ similarityTo(ret.query, b) = 0
        /\ \A i \in 1..Len(ret.results) :
             ret.results[i].chunk.chunkIndex = chunks[b].chunkIndex
               => rankedBefore(chunks[a].chunkIndex, i)

\* C18: in an index of exactly one chunk every vocabulary term has IDF 0, every
\* entry of the chunk's vector is 0, and every query gets similarity 0.
C18_SingleChunkCollapse ==
  (isInitialized /\ Len(chunks) = 1) =>
    /\ \A term \in vocabulary : idfScores[term] = 0
    /\ zeroNorm(chunks[1].tfidfVector)
    /\ SearchReturned =>
         \A i \in 1..Len(ret.results) : ret.results[i].similarity = 0


\* The reply of the last finished handleSubmit.
Replied == chatPc = "idle" /\ handled.op = "handleSubmit" /\ Len(messages) > 0

lastMessage == messages[Len(messages)]

\* The results of the last search whose similarity is above 0.1.
aboveRelevance ==
  SelectSeq(handled.searchResults,
            LAMBDA result : numGt(result.similarity, relevanceThreshold))

\* The top similarity is below 0.05.
topBelowNoMatch ==
  /\ ~IsNaN(handled.searchResults[1].similarity)
  /\ handled.searchResults[1].similarity < noMatchThreshold

\* C19: when relevant results exist and the LLM call threw, the assistant
\* message is made of the relevant sentences of the top relevant result (of its
\* chunk text when it has none), carries the relevant results as sources and has
\* isLLMGenerated = false; without an LLM call it carries the sources too; and
\* isLLMGenerated is true only when the LLM call returned.
C19_RetrievalSurvivesLLM ==
  Replied =>
    /\ (handled.llm = "threw") =>
         /\ aboveRelevance # <<>>
         /\ lastMessage.type = "assistant"
         /\ "sources" \in DOMAIN lastMessage
         /\ lastMessage.sources = aboveRelevance
         /\ lastMessage.isLLMGenerated = FALSE
         /\ lastMessage.content =
              IF aboveRelevance[1].relevantSentences # <<>>
              THEN joinWith(aboveRelevance[1].relevantSentences, <<SP>>)
              ELSE aboveRelevance[1].chunk.text
    /\ (handled.llm = "notCalled" /\ "sources" \in DOMAIN lastMessage) =>
         /\ lastMessage.sources = aboveRelevance
         /\ lastMessage.isLLMGenerated = FALSE
    /\ ("isLLMGenerated" \in DOMAIN lastMessage /\ lastMessage.isLLMGenerated) =>
         handled.llm = "returned"

\* The LLM call threw and the reply is the fallback with its sources.
C19_Witness ==
  /\ Replied
  /\ handled.llm = "threw"
  /\ "sources" \in DOMAIN lastMessage
  /\ lastMessage.sources # <<>>
  /\ lastMessage.content # SearchErrorMessage
  /\ lastMessage.isLLMGenerated = FALSE

\* C20: no result, or a top similarity below 0.05, gives the 'no match' message
\* without sources; otherwise no result above 0.1 gives the 'not relevant'
\* message without sources; otherwise sources are attached and each has a
\* similarity above 0.1. search itself returns the top 3 chunks whatever their
\* similarity is.
C20_ThresholdPolicy ==
  Replied =>
    /\ Len(handled.searchResults) = Min(chatTopK, Len(chunks))
    /\ IF handled.searchResults = <<>> \/ topBelowNoMatch
       THEN /\ lastMessage.content = NoMatchMessage
            /\ "sources" \notin DOMAIN lastMessage
       ELSE IF \A i \in 1..Len(handled.searchResults) :
                 ~numGt(handled.searchResults[i].similarity, relevanceThreshold)
       THEN /\ lastMessage.content = NotRelevantMessage
            /\ "sources" \notin DOMAIN lastMessage
       ELSE /\ "sources" \in DOMAIN lastMessage
            /\ lastMessage.sources # <<>>
            /\ \A i \in 1..Len(lastMessage.sources) :
                 numGt(lastMessage.sources[i].similarity, relevanceThreshold)

\* Sources are attached and a result of the search was left out of them.
C20_Witness ==
  /\ Replied
  /\ "sources" \in DOMAIN lastMessage
  /\ Len(lastMessage.sources) < Len(handled.searchResults)

\* The step of chunkText's loop that processes a non-empty paragraph.
paragraphStep ==
  /\ ckPc = "loop"
  /\ paraIndex < Len(paragraphs)
  /\ paraIndex' = paraIndex + 1
  /\ trim(paragraphs[paraIndex + 1]) # <<>>

\* The step pushed a chunk cut at a sentence end.
stepBrokeAtSentence ==
  /\ Len(emittedBy') > Len(emittedBy)
  /\ emittedBy'[Len(emittedBy')] = "sentenceBreak"

\* b ends with a.
endsWith(b, a) ==
  /\ Len(b) >= Len(a)
  /\ SubSeq(b, Len(b) - Len(a) + 1, Len(b)) = a

\* C21: the iteration that processes a non-empty paragraph appends it to the
\* buffer: when the iteration cut no chunk at a sentence end the buffer it leaves
\* ends with the paragraph, and when it cut one the buffer it leaves, the rest
\* after the cut, ends as the paragraph ends.
C21_ParagraphAppended ==
  [][paragraphStep =>
       LET paragraph == trim(paragraphs[paraIndex + 1])
       IN  IF stepBrokeAtSentence
           THEN \/ endsWith(currentChunk', paragraph)
                \/ endsWith(paragraph, currentChunk')
           ELSE endsWith(currentChunk', paragraph)]_vars

\* The cumulative offset after the first k sentences, each counted with one
\* character for its end.
RECURSIVE offsetAfter(_, _)
offsetAfter(sentences, k) ==
  IF k = 0 THEN 0 ELSE offsetAfter(sentences, k - 1) + Len(sentences[k]) + 1

\* The cumulative sentence offsets of a buffer that lie within [minSize, targetSize].
offsetsInRange(buffer) ==
  LET sentences == piecesBetween(buffer, sentenceEndMatches(buffer))
  IN  {offsetAfter(sentences, k) : k \in 1..(Len(sentences) - 1)}
        \cap (minSize..targetSize)

\* The greatest element of a non-empty set of numbers.
latest(S) == CHOOSE n \in S : \A m \in S : m <= n

\* C22: when the append of a paragraph brings the buffer to targetSize or more,
\* the iteration pushes a chunk cut at a sentence end exactly when some
\* cumulative sentence offset lies within [minSize, targetSize]; the chunk is the
\* buffer up to the latest such offset, at most targetSize characters, and the
\* buffer restarts overlapSize characters before it; without such an offset
\* nothing is pushed and the buffer stays as the append left it.
C22_SentenceBreak ==
  [][paragraphStep =>
       LET buffer  == addParagraph(trim(paragraphs[paraIndex + 1])).chunk
           offsets == offsetsInRange(buffer)
       IN  (Len(buffer) >= targetSize) =>
             IF offsets # {}
             THEN /\ stepBrokeAtSentence
                  /\ outChunks'[Len(outChunks')].text =
                       trim(substring(buffer, 0, latest(offsets)))
                  /\ Len(outChunks'[Len(outChunks')].text) <= targetSize
                  /\ currentChunk' =
                       trim(substringFrom(buffer, latest(offsets) - overlapSize))
             ELSE /\ ~stepBrokeAtSentence
                  /\ currentChunk' = buffer]_vars

\* The step of chunkText after its loop.
finishStep == ckPc = "loop" /\ ckPc' = "done"

C24_ProcessedChunks ==
  isInitialized =>
    /\ Len(chunks) = Len(documentChunks)
    /\ \A i \in 1..Len(chunks) :
         /\ ownKeys(chunks[i].tfidfVector) \subseteq vocabulary
         /\ ownKeys(chunks[i].tfidfVector) \subseteq DOMAIN idfScores
         /\ \A k \in 1..Len(chunks[i].tfidfVector) :
              chunks[i].tfidfVector[k].score >= 0
         /\ Cardinality(ownKeys(chunks[i].tfidfVector)) = chunks[i].termCount
         /\ chunks[i].id = documentChunks[i].id
         /\ chunks[i].text = documentChunks[i].text
         /\ chunks[i].pageNumber = documentChunks[i].pageNumber
         /\ chunks[i].chunkIndex = documentChunks[i].chunkIndex
         /\ chunks[i].startOffset = documentChunks[i].startOffset
         /\ chunks[i].endOffset = documentChunks[i].endOffset

\* The step is a call of initializeLLM that returned something new.
initializeLLMStep == llmRet'.op = "initializeLLM" /\ llmRet' # llmRet

\* C25: at most one engine.reload is in flight at a time; a call of
\* initializeLLM made while one is in flight returns the promise of that attempt
\* and creates no engine; a call made after a successful initialization starts
\* no reload.
C25_SingleInitialization ==
  /\ [](Cardinality(reloading) <= 1)
  /\ [][(initializeLLMStep /\ reloading # {}) =>
          /\ llmRet'.promise \in reloading
          /\ ~llmRet'.started
          /\ attempts' = attempts
          /\ reloading' = reloading]_vars
  /\ [][(initializeLLMStep /\ engineRef # 0) =>
          /\ ~llmRet'.started
          /\ attempts' = attempts
          /\ reloading' = reloading]_vars

\* A call made while engine.reload was in flight got the promise of that attempt.
C25_Witness ==
  /\ llmRet.op = "initializeLLM"
  /\ ~llmRet.started
  /\ llmRet.promise \in reloading
  /\ attempts = 1

\* The state after a failed initialization attempt.
initializationFailed ==
  /\ mounted
  /\ loadingState.error # "null"
  /\ ~loadingState.isReady
  /\ ~loadingState.isLoading
  /\ engineRef = 0

\* C26: after a failed attempt a call of initializeLLM starts a new one:
\* isLoading becomes true, the error is cleared and engine.reload is called
\* again.
C26_RetryAfterFailure ==
  [][(initializationFailed /\ initializeLLMStep) =>
       /\ loadingState'.isLoading
       /\ loadingState'.error = "null"
       /\ llmRet'.started
       /\ attempts' = attempts + 1
       /\ reloading' # {}]_vars

\* The step is a call of generateResponse that returned or threw something new
\* before any completion settled.
generateResponseStep ==
  /\ llmRet'.op = "generateResponse"
  /\ llmRet' # llmRet
  /\ completions' >= completions

\* C27: at most one completion is in flight; a call of generateResponse made
\* while one is in flight throws 'Already generating a response' and asks for no
\* completion; and the settling of a completion, with a text or with an error,
\* sets isGenerating back to false.
C27_SingleGeneration ==
  /\ [](completions <= 1)
  /\ []((mounted /\ completions > 0) => isGenerating)
  /\ [][(generateResponseStep /\ completions > 0) =>
          /\ llmRet'.outcome = "threw"
          /\ llmRet'.message = "Already generating a response. Please wait."
          /\ completions' = completions
          /\ isGenerating' = isGenerating]_vars
  /\ [][(completions' < completions) => ~isGenerating']_vars

\* A call made while a completion was in flight threw and the completion is
\* still the only one.
C27_Witness ==
  /\ llmRet.op = "generateResponse"
  /\ llmRet.outcome = "threw"
  /\ llmRet.message = "Already generating a response. Please wait."
  /\ completions = 1
  /\ isGenerating

\* The assistant messages that answer a submission: all but the welcome one.
replies ==
  Cardinality({i \in 1..Len(messages) :
                 /\ messages[i].type = "assistant"
                 /\ messages[i].content \notin {WelcomeWithLLM, WelcomeWithoutLLM}})

\* C28: an accepted submission appends one user message and, at once or when
\* the LLM call settles, one assistant message after it; isSearching is true
\* while the reply is awaited and is eventually false again; and while
\* isSearching or isGenerating is true no submission appends anything.
C28_OneReplyPerSubmission ==
  /\ [](chatPc = "idle" => (replies = submissions /\ ~isSearching))
  /\ [](chatPc = "awaitLLM" =>
          /\ replies = submissions - 1
          /\ isSearching
          /\ messages[Len(messages)].type = "user")
  /\ [](\A i \in 1..Len(messages) :
          (messages[i].type = "user" /\ i < Len(messages)) =>
             messages[i + 1].type = "assistant")
  /\ [][(isSearching \/ isGenerating) =>
          /\ submissions' = submissions
          /\ Len(messages') <= Len(messages) + 1]_vars
  /\ [][(handled'.op = "ignored" /\ handled' # handled) => messages' = messages]_vars
  /\ (isSearching ~> ~isSearching)

\* A submission that was not blank was ignored while the reply to the accepted
\* one was awaited.
C28_Witness ==
  /\ chatPc = "awaitLLM"
  /\ isSearching
  /\ handled.op = "ignored"
  /\ ~handled.blank
  /\ submissions = 1

\* processPdfDocument is between its call of onProcessingStateChange(true) and
\* its settling.
processingInProgress == loadPc \in {"extracting", "finalizing"}

\* processPdfDocument has settled, by returning or by throwing.
processingSettled ==
  loadPc \in {"processed", "processThrew", "segmenting", "chunking", "done", "failed"}

\* C29: processPdfDocument throws for a file that is not a PDF without calling
\* either callback; for a PDF it calls onProcessingStateChange(true) once, and
\* when it settles, extraction resolved or rejected, it has called
\* onProcessingStateChange(false) once after that and the stage is ''.
C29_ProcessingSignals ==
  /\ [][(loadPc = "process" /\ file.type # "application/pdf") =>
          /\ loadPc' = "processThrew"
          /\ stateChanges' = stateChanges
          /\ isProcessing' = isProcessing
          /\ processingStage' = processingStage]_vars
  /\ [](file.type = "text/plain" => stateChanges = <<>>)
  /\ [](processingInProgress => (stateChanges = <<TRUE>> /\ isProcessing))
  /\ [][(processingInProgress /\ ~processingInProgress') =>
          /\ stateChanges' = <<TRUE, FALSE>>
          /\ ~isProcessing'
          /\ processingStage' = ""]_vars
  /\ []((file.type = "application/pdf" /\ processingSettled) =>
          stateChanges = <<TRUE, FALSE>>)

\* Extraction was rejected and processPdfDocument has thrown: one true, then one
\* false, and the stage is ''.
C29_Witness ==
  /\ loadPc = "processThrew"
  /\ extractedData.outcome = "rejected"
  /\ stateChanges = <<TRUE, FALSE>>
  /\ processingStage = ""

\* C30: when loadPdfFromAssets has finished without throwing, the document
\* counts as loaded and a vector store is installed; when it has thrown,
\* loadError is set, the stage is '', isProcessing is false and no vector store
\* is installed.
C30_ChatLeavesPlaceholder ==
  /\ loadPc = "done" => (isDocumentLoaded /\ vectorStoreRef)
  /\ loadPc = "failed" =>
       (loadError # "" /\ processingStage = "" /\ ~isProcessing /\ ~vectorStoreRef)

\* The half of C30 about a sequence that threw.
C30_FailureReported ==
  loadPc = "failed" =>
    (loadError # "" /\ processingStage = "" /\ ~isProcessing /\ ~vectorStoreRef)

=============================================================================
